---- MODULE Spec2Model ----
(***************************************************************************)
(* Company data management API: the company resource's seven operations    *)
(* (controllers/company.controller.ts), the Mongoose schema behind them    *)
(* (models/company.model.ts) and the error-to-response mapping             *)
(* (middleware/errorHandler.ts), as a state machine over the company       *)
(* collection and a fixed set of clients, each with one request in flight. *)
(*                                                                         *)
(* Strings that the code trims, lower-cases or matches against a pattern   *)
(* are sequences of one-character strings; strings that are only compared  *)
(* or copied (industry, messages) are TLA+ strings.  A JSON object is a    *)
(* record whose DOMAIN is the set of keys it carries.                      *)
(*                                                                         *)
(* Spec runs every operation with the calendar year fixed.  SpecReads runs *)
(* the four reading operations over a collection at rest while the year    *)
(* that new Date().getFullYear() returns may advance.                      *)
(* SpecValues applies the envelope constructors and the employee range to  *)
(* inputs of their own; SpecRequest follows one request through            *)
(* timeoutHandler, asyncHandler and the error middleware; SpecDatabase is  *)
(* the Database singleton (configs/db.ts) under calls and connection       *)
(* events; SpecServer is the process from initializeServer (server.ts) to  *)
(* its exit.                                                               *)
(***************************************************************************)
EXTENDS Integers, Sequences, FiniteSets, TLC

VARIABLES
    store,          \* the company collection, in insertion order
    nextId,         \* the next _id the store generates
    nodeEnv,        \* process.env.NODE_ENV
    pc,             \* per client: where its request stands
    req,            \* per client: the request in flight or last answered
    resp,           \* per client: the response to req, status 0 while none
    nreq,           \* number of requests started so far
    inserted,       \* history: _ids inserted by the client's current request
    preCheck,       \* history: outcome of the current request's duplicate pre-check
    delSeen,        \* history: a delete succeeded since the current request began
    year,           \* the calendar year the clock shows
    getHist,        \* history: how the client's get-by-id relates to its previous one
    ctorArgs,       \* the arguments of an envelope constructor call
    envelope,       \* the envelope that call built, Unset before
    rangeDoc,       \* a company document whose employee range is asked for
    rangeOut,       \* the labels the virtual and the method gave, Unset before
    fn,             \* one request through the middleware: the route's handler
    routerAwaits,   \* whether the router passes a handler's rejection to next
    promise,        \* the promise the handler returned: pending, fulfilled, rejected
    timer,          \* the timer of timeoutHandler: armed, fired or cleared
    headersSent,    \* res.headersSent
    finished,       \* the response's finish event has been emitted
    responses,      \* the responses written to the client, in order
    nextCalls,      \* the calls of next with an error, in order
    socket,         \* the request's connection: open or destroyed
    process,        \* the Node process: up, or the exit code it ended with
    isConnected,    \* Database.isConnected
    readyState,     \* mongoose.connection.readyState, by name
    lost,           \* the connection dropped and the driver is reconnecting
    connectsPending, \* Database.connect() calls awaiting mongoose.connect
    closesPending,  \* Database.disconnect() calls awaiting connection.close
    dbListeners,    \* how many times setupEventListeners has run
    opened,         \* history: the readyStates in which a connection was opened
    dbCalls,        \* number of connect() and disconnect() calls so far
    exitCode,       \* the code process.exit was called with, -1 while running
    mongodbUri,     \* whether process.env.MONGODB_URI is set
    initPc,         \* where initializeServer stands
    attempt,        \* connectToDatabase: the attempt being made, 0 before the first
    delay,          \* connectToDatabase: the delay before the next attempt, in ms
    httpServer,     \* the HTTP server: none, starting, listening, closing, closed
    signalListeners, \* the listeners for SIGTERM and SIGINT, in registration order
    forceTimer,     \* the 10-second timer of the server's shutdown: none, armed
    signal,         \* the signal the process received, none before
    health          \* what performHealthCheck returned last, none before

\* The company collection and the requests on it.
companyVars ==
    <<store, nextId, nodeEnv, pc, req, resp, nreq, inserted, preCheck, delSeen,
      year, getHist>>

\* The constructors and getters applied on their own.
valueVars == <<ctorArgs, envelope, rangeDoc, rangeOut>>

\* One request's way through timeoutHandler, the route and the error middleware.
requestVars ==
    <<fn, routerAwaits, promise, timer, headersSent, finished, responses, nextCalls,
      socket, process>>

\* The Database singleton and the connection under it.
databaseVars ==
    <<isConnected, readyState, lost, connectsPending, closesPending, dbListeners,
      opened, dbCalls>>

\* The start and the end of the server process.
serverVars ==
    <<mongodbUri, initPc, attempt, delay, httpServer, signalListeners, forceTimer, signal,
      health>>

\* What a company request leaves alone.
otherVars == <<valueVars, requestVars, databaseVars, exitCode, serverVars>>

vars == <<companyVars, otherVars>>

\* The value of a variable nothing has been assigned to.
Unset == [type |-> "unset"]

\* No constructor or getter is being applied.
ValuesAtRest ==
    /\ ctorArgs = Unset
    /\ envelope = Unset
    /\ rangeDoc = Unset
    /\ rangeOut = Unset

\* No request is followed through the middleware.
RequestAtRest ==
    /\ fn = Unset
    /\ routerAwaits = Unset
    /\ promise = Unset
    /\ timer = Unset
    /\ headersSent = Unset
    /\ finished = Unset
    /\ responses = Unset
    /\ nextCalls = Unset
    /\ socket = Unset
    /\ process = Unset

\* The Database singleton as constructed: private isConnected = false.
DatabaseAtRest ==
    /\ isConnected = FALSE
    /\ readyState = "disconnected"
    /\ lost = FALSE
    /\ connectsPending = 0
    /\ closesPending = 0
    /\ dbListeners = 0
    /\ opened = {}
    /\ dbCalls = 0

\* initializeServer is not followed.
ServerAtRest ==
    /\ mongodbUri = Unset
    /\ initPc = Unset
    /\ attempt = Unset
    /\ delay = Unset
    /\ httpServer = Unset
    /\ signalListeners = Unset
    /\ forceTimer = Unset
    /\ signal = Unset
    /\ health = Unset

OthersAtRest ==
    ValuesAtRest /\ RequestAtRest /\ DatabaseAtRest /\ exitCode = -1 /\ ServerAtRest

(***************************************************************************)
(* Bounds                                                                  *)
(***************************************************************************)
MaxRequests == 3

\* The number of records of a store the reads are applied to.
MaxStored == 3

\* The number of year ends the clock passes.
MaxYearsOn == 1

\* The number of connect() and disconnect() calls on the Database singleton.
MaxDbCalls == 4

\* Two requests at a time.  A request that cannot write (a read, a create that
\* one of the checks rejects whatever the store holds) does not affect any
\* other request, and update and delete are a single store call, so each
\* interleaving of two requests arises with those issued by the first client.
\* Both clients issue the creates that can write.
Clients == {"c1", "c2"}

SingleStepClients == {"c1"}

(***************************************************************************)
(* String primitives                                                       *)
(***************************************************************************)
LowerOf ==
    [A |-> "a", B |-> "b", C |-> "c", E |-> "e", F |-> "f", H |-> "h", M |-> "m",
     O |-> "o", R |-> "r", S |-> "s", T |-> "t"]

toLowerCase(s) ==
    IF s = <<>> THEN <<>>
    ELSE [i \in 1..Len(s) |-> IF s[i] \in DOMAIN LowerOf THEN LowerOf[s[i]] ELSE s[i]]

RECURSIVE trimStart(_)
trimStart(s) == IF s # <<>> /\ Head(s) = " " THEN trimStart(Tail(s)) ELSE s

RECURSIVE trimEnd(_)
trimEnd(s) == IF s # <<>> /\ s[Len(s)] = " " THEN trimEnd(SubSeq(s, 1, Len(s) - 1)) ELSE s

trim(s) == trimEnd(trimStart(s))

WordChars == {"a", "b", "c", "e", "h", "p", "s", "t", "x", "A", "B", "0", "1", "2", "_"}

Digits == {"0", "1", "2"}

\* \w+([.-]?\w+)* : word characters, single '.' or '-' separators strictly inside
wordRun(s) ==
    /\ s # <<>>
    /\ \A i \in 1..Len(s) : s[i] \in WordChars \cup {".", "-"}
    /\ s[1] \in WordChars
    /\ s[Len(s)] \in WordChars
    /\ \A i \in 1..(Len(s) - 1) : s[i] \in WordChars \/ s[i + 1] \in WordChars

\* (\.\w{2,3})+$
RECURSIVE tldRun(_)
tldRun(s) ==
    /\ Len(s) >= 3
    /\ s[1] = "."
    /\ s[2] \in WordChars
    /\ s[3] \in WordChars
    /\ \/ Len(s) = 3
       \/ tldRun(SubSeq(s, 4, Len(s)))
       \/ /\ Len(s) >= 4
          /\ s[4] \in WordChars
          /\ (Len(s) = 4 \/ tldRun(SubSeq(s, 5, Len(s))))

\* /^\w+([.-]?\w+)*@\w+([.-]?\w+)*(\.\w{2,3})+$/
emailPattern(s) ==
    \E at \in 1..Len(s) :
        /\ s[at] = "@"
        /\ wordRun(SubSeq(s, 1, at - 1))
        /\ \E cut \in (at + 1)..Len(s) :
              /\ wordRun(SubSeq(s, at + 1, cut))
              /\ tldRun(SubSeq(s, cut + 1, Len(s)))

\* /^[\+]?[1-9][\d]{0,15}$/ on the value with separators removed
phonePattern(p) ==
    LET q == SelectSeq(p, LAMBDA c : c \notin {" ", "-", "(", ")"})
        r == IF q # <<>> /\ q[1] = "+" THEN Tail(q) ELSE q
    IN  /\ Len(r) \in 1..16
        /\ r[1] \in Digits \ {"0"}
        /\ \A i \in 2..Len(r) : r[i] \in Digits

startsWith(s, p) == Len(s) >= Len(p) /\ SubSeq(s, 1, Len(p)) = p

\* /^https?:\/\/.+\..+/
urlPattern(s) ==
    \E n \in {7, 8} :
        /\ Len(s) >= n
        /\ SubSeq(s, 1, n) = (IF n = 7 THEN <<"h", "t", "t", "p", ":", "/", "/">>
                                       ELSE <<"h", "t", "t", "p", "s", ":", "/", "/">>)
        /\ \E dot \in (n + 2)..(Len(s) - 1) : s[dot] = "."

(***************************************************************************)
(* JSON values                                                             *)
(***************************************************************************)
Obj(f) == [type |-> "object", fields |-> f]

Arr(s) == [type |-> "array", items |-> s]

Null == [type |-> "null"]

Has(o, k) == k \in DOMAIN o

isArray(v) == v.type = "array"

(***************************************************************************)
(* Company schema                                                          *)
(***************************************************************************)
industryEnum ==
    << "Technology", "Healthcare", "Manufacturing", "Financial Services", "Retail",
       "Education", "Construction", "Transportation", "Entertainment", "Other" >>

includes(arr, v) == \E i \in 1..Len(arr) : arr[i] = v

\* new Date().getFullYear() as evaluated once, when the schema is defined.
CurrentYear == 2026

schemaPaths ==
    {"name", "description", "industry", "foundedYear", "location", "website", "email",
     "phone", "employees", "isActive", "logo", "headquarters", "revenue"}

\* The setters a schema path declares (trim, lowercase), applied to one value.
applySetters(path, v) ==
    CASE path = "email" -> toLowerCase(trim(v))
      [] path \in {"name", "description", "website", "phone", "logo", "headquarters"} -> trim(v)
      [] OTHER -> v

\* new Company(fields): undefined fields are dropped, setters run, defaults
\* are filled in.
castDocument(fields) ==
    LET keys == (DOMAIN fields \cap schemaPaths) \cup {"isActive"}
    IN  [k \in keys |->
            IF k \in DOMAIN fields THEN applySetters(k, fields[k]) ELSE TRUE]

\* Schema validators, run by validate() before any user pre('save') hook.
validatorErrors(doc) ==
    (IF ~Has(doc, "name") \/ doc.name = <<>>
        THEN <<"Company name is required">>
        ELSE IF Len(doc.name) > 100
            THEN <<"Company name cannot exceed 100 characters">> ELSE <<>>)
    \o (IF Has(doc, "description") /\ Len(doc.description) > 1000
        THEN <<"Description cannot exceed 1000 characters">> ELSE <<>>)
    \o (IF ~Has(doc, "industry") \/ doc.industry = ""
        THEN <<"Industry is required">>
        ELSE IF ~includes(industryEnum, doc.industry)
            THEN <<"Please select a valid industry">> ELSE <<>>)
    \o (IF ~Has(doc, "foundedYear") THEN <<>>
        ELSE IF doc.foundedYear < 1800 THEN <<"Founded year must be after 1800">>
        ELSE IF doc.foundedYear > CurrentYear THEN <<"Founded year cannot be in the future">>
        ELSE <<>>)
    \o (IF ~Has(doc, "location") \/ ~isArray(doc.location)
        THEN <<"At least one location is required">>
        ELSE IF ~(Len(doc.location.items) > 0
                  /\ \A i \in 1..Len(doc.location.items) : Len(doc.location.items[i]) <= 200)
            THEN <<"Each location must not exceed 200 characters">> ELSE <<>>)
    \o (IF Has(doc, "website") /\ doc.website # <<>> /\ ~urlPattern(doc.website)
        THEN <<"Please provide a valid website URL">> ELSE <<>>)
    \o (IF ~Has(doc, "email") \/ doc.email = <<>>
        THEN <<"Email is required">>
        ELSE IF ~emailPattern(doc.email) THEN <<"Please enter a valid email">> ELSE <<>>)
    \o (IF Has(doc, "phone") /\ doc.phone # <<>> /\ ~phonePattern(doc.phone)
        THEN <<"Please provide a valid phone number">> ELSE <<>>)
    \o (IF ~Has(doc, "employees") THEN <<>>
        ELSE IF doc.employees < 1 THEN <<"Employee count must be at least 1">>
        ELSE IF doc.employees > 10000000 THEN <<"Employee count seems unrealistic">>
        ELSE <<>>)
    \o (IF Has(doc, "headquarters") /\ Len(doc.headquarters) > 200
        THEN <<"Headquarters cannot exceed 200 characters">> ELSE <<>>)
    \o (IF Has(doc, "revenue") /\ doc.revenue < 0
        THEN <<"Revenue cannot be negative">> ELSE <<>>)

\* pre('save'): ensure the website has a protocol.
preSave(doc) ==
    IF Has(doc, "website") /\ doc.website # <<>>
       /\ ~startsWith(doc.website, <<"h", "t", "t", "p">>)
    THEN [doc EXCEPT !.website = <<"h", "t", "t", "p", "s", ":", "/", "/">> \o @]
    ELSE doc

uniqueViolationsNoIndex(doc) == {}

uniqueViolationsNameOnly(doc) ==
    {f \in {"name"} : \E i \in 1..Len(store) : store[i][f] = doc[f]}

\* The fields of the unique indexes (name, email) that doc would violate.

uniqueViolations(doc) ==
    {f \in {"name", "email"} : \E i \in 1..Len(store) : store[i][f] = doc[f]}

withId(doc, id) ==
    [k \in DOMAIN doc \cup {"_id"} |-> IF k = "_id" THEN id ELSE doc[k]]


\* Virtual employeeRange.
employeeRange(doc) ==
    IF ~Has(doc, "employees") \/ doc.employees = 0 THEN "Not specified"
    ELSE IF doc.employees < 10 THEN "1-10"
    ELSE IF doc.employees < 50 THEN "11-50"
    ELSE IF doc.employees < 200 THEN "51-200"
    ELSE IF doc.employees < 1000 THEN "201-1000"
    ELSE "1000+"

\* Instance method getEmployeeRange().
getEmployeeRange(doc) ==
    IF ~Has(doc, "employees") \/ doc.employees = 0 THEN "Not specified"
    ELSE IF doc.employees < 10 THEN "1-10"
    ELSE IF doc.employees < 50 THEN "11-50"
    ELSE IF doc.employees < 200 THEN "51-200"
    ELSE IF doc.employees < 1000 THEN "201-1000"
    ELSE "1000+"

\* Virtual companyAge; -1 stands for the null the getter returns.
companyAgeVirtual(doc) ==
    IF ~Has(doc, "foundedYear") \/ doc.foundedYear = 0 THEN -1
    ELSE year - doc.foundedYear

getCompanyAgeAsVirtual(doc) ==
    IF ~Has(doc, "foundedYear") \/ doc.foundedYear = 0 THEN -1
    ELSE year - doc.foundedYear

\* Instance method getCompanyAge().
getCompanyAge(doc) ==
    IF ~Has(doc, "foundedYear") \/ doc.foundedYear = 0 THEN 0
    ELSE year - doc.foundedYear

\* toObject() / toJSON() with { virtuals: true }.
toObject(doc) ==
    [k \in DOMAIN doc \cup {"id", "companyAge", "employeeRange"} |->
        CASE k = "id" -> doc["_id"]
          [] k = "companyAge" -> companyAgeVirtual(doc)
          [] k = "employeeRange" -> employeeRange(doc)
          [] OTHER -> doc[k]]

(***************************************************************************)
(* Errors and the response envelope                                        *)
(***************************************************************************)
\* new ApiError(statusCode, message, errors); errors = <<>> when not given.
ApiError(statusCode, message, errors) ==
    [name |-> "Error", message |-> message, statusCode |-> statusCode,
     isOperational |-> TRUE, code |-> 0, errors |-> errors]

badRequest(message, errors) == ApiError(400, message, errors)

unauthorized(message) == ApiError(401, message, <<>>)

conflict(message) == ApiError(409, message, <<>>)

unprocessableEntity(message, errors) == ApiError(422, message, errors)

tooManyRequests(message) == ApiError(429, message, <<>>)

serviceUnavailable(message) == ApiError(503, message, <<>>)

gatewayTimeout(message) == ApiError(504, message, <<>>)

\* An error raised by the driver or the ODM: no statusCode, not operational.
DriverError(name, message, code, errors) ==
    [name |-> name, message |-> message, statusCode |-> 0,
     isOperational |-> FALSE, code |-> code, errors |-> errors]

DuplicateKeyError ==
    DriverError("MongoServerError", "E11000 duplicate key error", 11000, <<>>)

ValidationError(messages) ==
    DriverError("ValidationError", "Company validation failed", 0, messages)

CastError == DriverError("CastError", "Cast to ObjectId failed", 0, <<>>)

\* Failures of a store round trip that do not depend on the request.
StoreFaults ==
    { DriverError("MongoServerError", "operation failed", 0, <<>>),
      DriverError("MongoNetworkError", "connection closed", 0, <<>>) }

\* message.includes(needle), over the messages the model raises.
messageIncludes(message, needle) ==
    CASE needle = "connection" -> message \in {"connection closed"}
      [] needle = "rate limit" -> FALSE
      [] OTHER -> FALSE

\* new ApiResponse(statusCode, message, data) as serialised by res.json.
ApiResponse(statusCode, message, data) ==
    Obj([success |-> statusCode < 400, statusCode |-> statusCode,
         message |-> message, data |-> data, timestamp |-> "now"])

HttpResponse(status, json) == [status |-> status, json |-> json]

NoResponse == HttpResponse(0, Null)

sendErrorDev(err, path, method) ==
    LET statusCode == IF err.statusCode # 0 THEN err.statusCode ELSE 500
    IN  HttpResponse(statusCode,
            Obj([success |-> FALSE, statusCode |-> statusCode, message |-> err.message,
                 error |-> err, stack |-> "stack", path |-> path, method |-> method,
                 timestamp |-> "now"]))

sendErrorProd(err, path) ==
    LET statusCode == IF err.statusCode # 0 THEN err.statusCode ELSE 500
    IN  IF err.isOperational
        THEN HttpResponse(statusCode,
                Obj([success |-> FALSE, statusCode |-> statusCode,
                     message |-> err.message, timestamp |-> "now", path |-> path]))
        ELSE HttpResponse(500,
                Obj([success |-> FALSE, statusCode |-> 500,
                     message |-> "Something went wrong on our end. Please try again later.",
                     timestamp |-> "now", path |-> path]))

handleCastErrorDB(err) == badRequest("Invalid _id", <<>>)

handleDuplicateFieldsDB(err) == conflict("Duplicate field value. Please use another value.")

handleValidationErrorDB(err) == unprocessableEntity("Invalid input data", err.errors)

\* The chain of independent ifs: the last one that applies decides.
translateError(err) ==
    LET e1 == IF err.name = "CastError" THEN handleCastErrorDB(err) ELSE err
        e2 == IF err.code = 11000 THEN handleDuplicateFieldsDB(err) ELSE e1
        e3 == IF err.name = "ValidationError" THEN handleValidationErrorDB(err) ELSE e2
        e4 == IF err.name \in {"JsonWebTokenError", "TokenExpiredError"}
              THEN unauthorized("Invalid token. Please log in again.") ELSE e3
        e5 == IF err.name = "MongooseServerSelectionError"
              THEN serviceUnavailable("Unable to connect to database. Please try again later.")
              ELSE e4
        e6 == IF err.name = "MongoNetworkError"
              THEN serviceUnavailable("Database network error. Please try again later.")
              ELSE e5
        e7 == IF err.name = "MongooseTimeoutError"
              THEN gatewayTimeout("Database operation timed out. Please try again.")
              ELSE e6
        e8 == IF err.name = "MongoError" /\ messageIncludes(err.message, "connection")
              THEN serviceUnavailable("Database connection failed. Please try again later.")
              ELSE e7
        e9 == IF err.name = "MulterError" THEN badRequest("File upload error.", <<>>) ELSE e8
        e10 == IF err.name = "RateLimitError" \/ messageIncludes(err.message, "rate limit")
               THEN tooManyRequests("Too many requests from this IP. Please try again later.")
               ELSE e9
        e11 == IF err.name = "SyntaxError"
               THEN badRequest("Syntax error in request.", <<>>) ELSE e10
    IN  e11

globalErrorHandler(err, path, method) ==
    IF nodeEnv = "development"
    THEN sendErrorDev(translateError(err), path, method)
    ELSE sendErrorProd(translateError(err), path)


(***************************************************************************)
(* Request inputs                                                          *)
(***************************************************************************)
nameA == <<"a">>

nameAPadded == <<" ", "a">>

nameB == <<"b">>

emailA == <<"a", "@", "b", ".", "c", "c">>

emailAUpper == <<"A", "@", "b", ".", "c", "c">>

emailB == <<"b", "@", "b", ".", "c", "c">>

locX == Arr(<< <<"x">> >>)

CreateBodies ==
    { [name |-> nameA, email |-> emailA, industry |-> "Technology", location |-> locX],
      [name |-> nameAPadded, email |-> emailB, industry |-> "Retail", location |-> locX,
       isActive |-> FALSE],
      [name |-> nameB, email |-> emailAUpper, industry |-> "Technology", location |-> locX,
       employees |-> 10, foundedYear |-> 2000],
      [name |-> nameA, email |-> emailB, industry |-> "Technology", location |-> locX],
      [name |-> nameA, email |-> emailA, industry |-> "Mining", location |-> locX],
      [name |-> nameB, email |-> <<"b">>, industry |-> "Other", location |-> locX],
      [name |-> nameB, email |-> emailB, industry |-> "Other",
       location |-> Arr(<< <<" ">> >>)],
      [name |-> nameB, email |-> emailB, industry |-> "Other", location |-> locX,
       website |-> <<"e", ".", "c">>],
      [name |-> <<" ">>, industry |-> "", location |-> Arr(<<>>)],
      <<>> }

UpdateBodies ==
    { [location |-> Arr(<<>>)],
      [location |-> Null],
      [name |-> nameB, industry |-> "Mining", location |-> Arr(<< <<"y">> >>),
       description |-> <<"d">>, phone |-> <<"1", "2">>, logo |-> <<"p">>],
      [name |-> nameB, email |-> emailB, industry |-> "Mining", employees |-> 7],
      <<>> }

\* Path ids: 0 is a string that is not an ObjectId, the others may or may not
\* name a stored record.
PathIds == 0..2

isObjectId(id) == id # 0

(***************************************************************************)
(* Store primitives                                                        *)
(***************************************************************************)
indexOfId(id) ==
    IF \E i \in 1..Len(store) : store[i]["_id"] = id
    THEN CHOOSE i \in 1..Len(store) : store[i]["_id"] = id
    ELSE 0

removeAtKeepingAll(seq, i) == seq

removeAt(seq, i) == SubSeq(seq, 1, i - 1) \o SubSeq(seq, i + 1, Len(seq))

\* Whether the ODM runs the schema setters on the values of a query filter or
\* of an update is decided outside this source: both behaviours are allowed.
QuerySetterModes == BOOLEAN

\* The filter values as the store compares them: with the schema setters
\* applied when the ODM runs setters on query filters, raw otherwise.
queryValue(path, v, setters) == IF setters THEN applySetters(path, v) ELSE v

\* Company.findOne({ $or: [{ name }, { email }] }) finds a record.
findOneByNameOrEmail(name, email, setters) ==
    \E i \in 1..Len(store) :
        \/ store[i].name = queryValue("name", name, setters)
        \/ store[i].email = queryValue("email", email, setters)

(***************************************************************************)
(* Request bookkeeping                                                     *)
(***************************************************************************)
Begin(c, r) ==
    /\ pc[c] = "idle"
    /\ nreq < MaxRequests
    /\ nreq' = nreq + 1
    /\ req' = [req EXCEPT ![c] = r]
    /\ inserted' = [inserted EXCEPT ![c] = {}]
    /\ preCheck' = [preCheck EXCEPT ![c] = "none"]
    /\ getHist' = [getHist EXCEPT ![c] =
            IF r.op # "get" THEN "none"
            ELSE IF req[c] = r /\ getHist[c] \in {"got", "regot"} THEN "regot"
            ELSE "got"]
    /\ year' = year
    /\ UNCHANGED otherVars

\* The request c begins has seen no delete yet.
Fresh(c) == delSeen' = [delSeen EXCEPT ![c] = FALSE]

Answer(c, r) ==
    /\ pc' = [pc EXCEPT ![c] = "idle"]
    /\ resp' = [resp EXCEPT ![c] = r]

Await(c, label) ==
    /\ pc' = [pc EXCEPT ![c] = label]
    /\ resp' = [resp EXCEPT ![c] = NoResponse]

(***************************************************************************)
(* createCompany                                                           *)
(***************************************************************************)
createFieldErrorsNoEntryCheck(body) ==
    (IF ~Has(body, "name") \/ trim(body.name) = <<>>
        THEN <<"Name is required">> ELSE <<>>)
    \o (IF ~Has(body, "email") \/ trim(body.email) = <<>>
        THEN <<"Email is required">> ELSE <<>>)
    \o (IF ~Has(body, "industry") \/ body.industry = ""
        THEN <<"Industry is required">> ELSE <<>>)
    \o (IF ~Has(body, "location") \/ ~isArray(body.location)
           \/ Len(body.location.items) = 0
        THEN <<"At least one location is required">> ELSE <<>>)

\* The field-shape checks at the head of createCompany.

createFieldErrors(body) ==
    (IF ~Has(body, "name") \/ trim(body.name) = <<>>
        THEN <<"Name is required">> ELSE <<>>)
    \o (IF ~Has(body, "email") \/ trim(body.email) = <<>>
        THEN <<"Email is required">> ELSE <<>>)
    \o (IF ~Has(body, "industry") \/ body.industry = ""
        THEN <<"Industry is required">> ELSE <<>>)
    \o (IF ~Has(body, "location") \/ ~isArray(body.location)
           \/ Len(body.location.items) = 0
        THEN <<"At least one location is required">>
        ELSE IF \E i \in 1..Len(body.location.items) :
                    Len(trim(body.location.items[i])) = 0
            THEN <<"Each location must be a non-empty string">> ELSE <<>>)

\* The fields createCompany hands to Company.create.
createFields(body) ==
    [k \in DOMAIN body \cap
           {"name", "description", "industry", "foundedYear", "location", "website",
            "email", "phone", "employees", "logo", "headquarters", "revenue"} |-> body[k]]

\* The create bodies that pass every check of the handler and of the schema:
\* the requests that can write.
WritingBodies ==
    {body \in CreateBodies :
        /\ createFieldErrors(body) = <<>>
        /\ includes(industryEnum, body.industry)
        /\ validatorErrors(castDocument(createFields(body))) = <<>>}

\* Synchronous head of the handler, up to the first await.
CreateCompany(c, body) ==
    /\ c \in SingleStepClients \/ body \in WritingBodies
    /\ Begin(c, [op |-> "create", body |-> body])
    /\ IF createFieldErrors(body) # <<>>
       THEN Answer(c, globalErrorHandler(
                badRequest("Missing fields", createFieldErrors(body)), "/", "POST"))
       ELSE Await(c, "findOne")
    /\ Fresh(c)
    /\ UNCHANGED <<store, nextId, nodeEnv>>

CreateFindOneEnumFirst(c) ==
    /\ pc[c] = "findOne"
    /\ \E setters \in QuerySetterModes :
        LET body == req[c].body
            found == findOneByNameOrEmail(body.name, body.email, setters)
        IN  /\ preCheck' = [preCheck EXCEPT ![c] = IF found THEN "found" ELSE "clear"]
            /\ IF ~includes(industryEnum, body.industry)
               THEN Answer(c, globalErrorHandler(
                        badRequest("Invalid industry. Allowed values are: ...", <<>>),
                        "/", "POST"))
               ELSE IF found
               THEN Answer(c, globalErrorHandler(
                        ApiError(400, "Already existing company", <<>>), "/", "POST"))
               ELSE pc' = [pc EXCEPT ![c] = "create"] /\ UNCHANGED resp
    /\ UNCHANGED <<store, nextId, nodeEnv, req, nreq, inserted, delSeen, year, getHist,
                   otherVars>>

\* The duplicate pre-check completes; the handler runs on to the next await.
CreateFindOne(c) ==
    /\ pc[c] = "findOne"
    /\ \E setters \in QuerySetterModes :
        LET body == req[c].body
            found == findOneByNameOrEmail(body.name, body.email, setters)
        IN  /\ preCheck' = [preCheck EXCEPT ![c] = IF found THEN "found" ELSE "clear"]
            /\ IF found
               THEN Answer(c, globalErrorHandler(
                        ApiError(400, "Already existing company", <<>>), "/", "POST"))
               ELSE IF ~includes(industryEnum, body.industry)
               THEN Answer(c, globalErrorHandler(
                        badRequest("Invalid industry. Allowed values are: ...", <<>>),
                        "/", "POST"))
               ELSE pc' = [pc EXCEPT ![c] = "create"] /\ UNCHANGED resp
    /\ UNCHANGED <<store, nextId, nodeEnv, req, nreq, inserted, delSeen, year, getHist,
                   otherVars>>

\* Company.create completes: validation, pre-save hook, insert under the
\* unique indexes; the handler answers.
CreateInsert(c) ==
    /\ pc[c] = "create"
    /\ LET doc == castDocument(createFields(req[c].body))
           errors == validatorErrors(doc)
           saved == withId(preSave(doc), nextId)
       IN  IF errors # <<>>
           THEN /\ Answer(c, globalErrorHandler(ValidationError(errors), "/", "POST"))
                /\ UNCHANGED <<store, nextId, inserted>>
           ELSE IF uniqueViolations(preSave(doc)) # {}
           THEN /\ Answer(c, globalErrorHandler(DuplicateKeyError, "/", "POST"))
                /\ UNCHANGED <<store, nextId, inserted>>
           ELSE /\ store' = Append(store, saved)
                /\ nextId' = nextId + 1
                /\ inserted' = [inserted EXCEPT ![c] = @ \cup {nextId}]
                /\ Answer(c, HttpResponse(201,
                        ApiResponse(201, "Company created successfully",
                                    Obj(toObject(saved)))))
    /\ UNCHANGED <<nodeEnv, req, nreq, preCheck, delSeen, year, getHist, otherVars>>

\* A store round trip of createCompany fails for a reason of its own.
CreateStoreFault(c, fault) ==
    /\ pc[c] \in {"findOne", "create"}
    /\ Answer(c, globalErrorHandler(fault, "/", "POST"))
    /\ UNCHANGED <<store, nextId, nodeEnv, req, nreq, inserted, preCheck, delSeen,
                   year, getHist, otherVars>>


(***************************************************************************)
(* getAllCompanies                                                         *)
(***************************************************************************)
\* $project of the list pipeline: the listed paths a stored document has.
project(doc) ==
    [k \in DOMAIN doc \cap
           {"_id", "name", "description", "industry", "foundedYear", "location",
            "website", "isActive", "logo", "employeeRange"} |-> doc[k]]

\* The page and limit of a list query, as numbers.
ListQueries ==
    { <<>>, [limit |-> 1], [limit |-> 2], [page |-> 2, limit |-> 1],
      [page |-> 2, limit |-> 2], [page |-> 3, limit |-> 1], [page |-> 0],
      [limit |-> 0] }

\* The list queries issued among the writes.
ListProbes == { <<>>, [page |-> 0] }

listSkipAsOffset(query) ==
    (IF Has(query, "page") THEN query.page ELSE 1)
    * (IF Has(query, "limit") THEN query.limit ELSE 10)

\* $skip: (Number(page) - 1) * Number(limit).
listSkip(query) ==
    ((IF Has(query, "page") THEN query.page ELSE 1) - 1)
    * (IF Has(query, "limit") THEN query.limit ELSE 10)

\* The aggregation of getAllCompanies and the response it leads to; the
\* store refuses a negative $skip and a $limit that is not positive.
listResponse(query) ==
    LET limit == IF Has(query, "limit") THEN query.limit ELSE 10
        skip == listSkip(query)
        last == IF skip + limit < Len(store) THEN skip + limit ELSE Len(store)
    IN  IF skip < 0 \/ limit <= 0
        THEN HttpResponse(500, Obj([error |-> "invalid argument in aggregation stage"]))
        ELSE HttpResponse(200,
                Arr([i \in 1..(IF last > skip THEN last - skip ELSE 0) |->
                        Obj(project(store[skip + i]))]))

GetAllCompanies(c, query) ==
    /\ Begin(c, [op |-> "list", query |-> query])
    /\ Answer(c, listResponse(query))
    /\ Fresh(c)
    /\ UNCHANGED <<store, nextId, nodeEnv>>

(***************************************************************************)
(* getCompanyById                                                          *)
(***************************************************************************)
GetCompanyByIdCountingViews(c, id) ==
    /\ Begin(c, [op |-> "get", id |-> id])
    /\ IF ~isObjectId(id)
       THEN /\ Answer(c, HttpResponse(500, Obj([error |-> CastError.message])))
            /\ UNCHANGED store
       ELSE IF indexOfId(id) = 0
       THEN /\ Answer(c, HttpResponse(404, Obj([message |-> "Company not found"])))
            /\ UNCHANGED store
       ELSE LET i == indexOfId(id)
                company == [k \in DOMAIN store[i] \cup {"views"} |->
                               IF k # "views" THEN store[i][k]
                               ELSE IF Has(store[i], "views") THEN store[i].views + 1 ELSE 1]
            IN  /\ store' = [store EXCEPT ![i] = company]
                /\ Answer(c, HttpResponse(200,
                        Obj([toObject(company) EXCEPT !.companyAge = getCompanyAge(company)])))
    /\ Fresh(c)
    /\ UNCHANGED <<nextId, nodeEnv>>

GetCompanyById(c, id) ==
    /\ Begin(c, [op |-> "get", id |-> id])
    /\ IF ~isObjectId(id)
       THEN Answer(c, HttpResponse(500, Obj([error |-> CastError.message])))
       ELSE IF indexOfId(id) = 0
       THEN Answer(c, HttpResponse(404, Obj([message |-> "Company not found"])))
       ELSE LET company == store[indexOfId(id)]
            IN  Answer(c, HttpResponse(200,
                    Obj([toObject(company) EXCEPT !.companyAge = getCompanyAge(company)])))
    /\ Fresh(c)
    /\ UNCHANGED <<store, nextId, nodeEnv>>

(***************************************************************************)
(* updateCompany                                                           *)
(***************************************************************************)
allowedFieldsWithIndustry ==
    <<"logo", "description", "location", "phone", "isActive", "industry">>

allowedFieldsWithName == <<"logo", "description", "location", "phone", "isActive", "name">>

allowedFields == <<"logo", "description", "location", "phone", "isActive">>

updateDataUnfiltered(updates) == updates

\* The loop over allowedFields: the allow-listed keys the body defines.
updateData(updates) ==
    [k \in {f \in DOMAIN updates : includes(allowedFields, f)} |-> updates[k]]

\* $set of the cast update on one document; no validators run.
applyUpdate(doc, data, setters) ==
    [k \in DOMAIN doc \cup DOMAIN data |->
        IF k \in DOMAIN data THEN queryValue(k, data[k], setters) ELSE doc[k]]

UpdateCompany(c, id, body) ==
    /\ Begin(c, [op |-> "update", id |-> id, body |-> body])
    /\ IF DOMAIN updateData(body) = {}
       THEN /\ Answer(c, HttpResponse(400,
                    Obj([message |-> "No fields provided to update"])))
            /\ UNCHANGED store
       ELSE IF ~isObjectId(id)
       THEN /\ Answer(c, HttpResponse(500, Obj([error |-> CastError.message])))
            /\ UNCHANGED store
       ELSE IF indexOfId(id) = 0
       THEN /\ Answer(c, HttpResponse(404, Obj([message |-> "Company not found"])))
            /\ UNCHANGED store
       ELSE \E setters \in QuerySetterModes :
            LET i == indexOfId(id)
                company == applyUpdate(store[i], updateData(body), setters)
            IN  /\ store' = [store EXCEPT ![i] = company]
                /\ Answer(c, HttpResponse(200, Obj(toObject(company))))
    /\ Fresh(c)
    /\ UNCHANGED <<nextId, nodeEnv>>

(***************************************************************************)
(* deleteCompany                                                           *)
(***************************************************************************)
DeleteCompanyNoLookup(c, id) ==
    /\ Begin(c, [op |-> "delete", id |-> id])
    /\ IF ~isObjectId(id)
       THEN /\ Answer(c, HttpResponse(500, Obj([error |-> CastError.message])))
            /\ Fresh(c)
            /\ UNCHANGED store
       ELSE IF indexOfId(id) = 0
       THEN /\ Answer(c, HttpResponse(200, Obj([message |-> "Company deleted successfully"])))
            /\ Fresh(c)
            /\ UNCHANGED store
       ELSE /\ store' = removeAt(store, indexOfId(id))
            /\ delSeen' = [d \in Clients |-> d # c]
            /\ Answer(c, HttpResponse(200, Obj([message |-> "Company deleted successfully"])))
    /\ UNCHANGED <<nextId, nodeEnv>>

DeleteCompany(c, id) ==
    /\ Begin(c, [op |-> "delete", id |-> id])
    /\ IF ~isObjectId(id)
       THEN /\ Answer(c, HttpResponse(500, Obj([error |-> CastError.message])))
            /\ Fresh(c)
            /\ UNCHANGED store
       ELSE IF indexOfId(id) = 0
       THEN /\ Answer(c, HttpResponse(404, Obj([message |-> "Company not found"])))
            /\ Fresh(c)
            /\ UNCHANGED store
       ELSE /\ store' = removeAt(store, indexOfId(id))
            /\ delSeen' = [d \in Clients |-> d # c]
            /\ Answer(c, HttpResponse(200, Obj([message |-> "Company deleted successfully"])))
    /\ UNCHANGED <<nextId, nodeEnv>>

(***************************************************************************)
(* searchSuggestion                                                        *)
(***************************************************************************)
\* One character of a pattern against one character: '.' stands for any
\* character, every other character of the inputs for itself, under 'i'.
charMatch(p, ch) == p = "." \/ toLowerCase(<<p>>) = toLowerCase(<<ch>>)

\* s matches the pattern q, unanchored, under the 'i' option.
regexMatch(s, q) ==
    \E i \in 0..(Len(s) - Len(q)) : \A j \in 1..Len(q) : charMatch(q[j], s[i + j])

\* The characters of the industry values.
industryText(v) ==
    CASE v = "Technology" -> <<"T", "e", "c", "h", "n", "o", "l", "o", "g", "y">>
      [] v = "Healthcare" -> <<"H", "e", "a", "l", "t", "h", "c", "a", "r", "e">>
      [] v = "Manufacturing" ->
            <<"M", "a", "n", "u", "f", "a", "c", "t", "u", "r", "i", "n", "g">>
      [] v = "Financial Services" ->
            <<"F", "i", "n", "a", "n", "c", "i", "a", "l", " ",
              "S", "e", "r", "v", "i", "c", "e", "s">>
      [] v = "Retail" -> <<"R", "e", "t", "a", "i", "l">>
      [] v = "Education" -> <<"E", "d", "u", "c", "a", "t", "i", "o", "n">>
      [] v = "Construction" ->
            <<"C", "o", "n", "s", "t", "r", "u", "c", "t", "i", "o", "n">>
      [] v = "Transportation" ->
            <<"T", "r", "a", "n", "s", "p", "o", "r", "t", "a", "t", "i", "o", "n">>
      [] v = "Entertainment" ->
            <<"E", "n", "t", "e", "r", "t", "a", "i", "n", "m", "e", "n", "t">>
      [] v = "Other" -> <<"O", "t", "h", "e", "r">>

locationItems(doc) == IF isArray(doc.location) THEN doc.location.items ELSE <<>>

\* The $or filter of the suggestion query.
suggestionFilter(doc, q) ==
    \/ regexMatch(doc.name, q)
    \/ regexMatch(industryText(doc.industry), q)
    \/ \E i \in 1..Len(locationItems(doc)) : regexMatch(locationItems(doc)[i], q)

\* What one matched record adds to the result set, in the order it adds it.
suggestionValues(doc, q) ==
    (IF regexMatch(doc.name, q) THEN <<doc.name>> ELSE <<>>)
    \o (IF regexMatch(industryText(doc.industry), q)
        THEN <<industryText(doc.industry)>> ELSE <<>>)
    \o SelectSeq(locationItems(doc), LAMBDA loc : regexMatch(loc, q))

\* Array.from(new Set(values)): first occurrences, in insertion order.
RECURSIVE setOrder(_)
setOrder(values) ==
    IF values = <<>> THEN <<>>
    ELSE LET front == setOrder(SubSeq(values, 1, Len(values) - 1))
             v == values[Len(values)]
         IN  IF \E i \in 1..Len(front) : front[i] = v THEN front ELSE Append(front, v)

RECURSIVE collectSuggestions(_, _)
collectSuggestions(docs, q) ==
    IF docs = <<>> THEN <<>>
    ELSE (IF suggestionFilter(Head(docs), q) THEN suggestionValues(Head(docs), q) ELSE <<>>)
         \o collectSuggestions(Tail(docs), q)

SuggestionQueries ==
    { <<>>, [q |-> <<"A">>], [q |-> <<"x">>], [q |-> <<"a", "C">>], [q |-> <<"T", "e">>],
      [q |-> <<".">>], [q |-> <<>>] }

\* The suggestion queries issued among the writes.
SuggestionProbes == { <<>>, [q |-> <<"x">>] }

SearchSuggestion(c, query) ==
    /\ Begin(c, [op |-> "suggest", query |-> query])
    /\ IF ~Has(query, "q")
       THEN Answer(c, HttpResponse(400, Obj([message |-> "Invalid query parameter"])))
       ELSE IF \E i \in 1..Len(store) :
                   suggestionFilter(store[i], query.q) /\ ~isArray(store[i].location)
       THEN Answer(c, HttpResponse(500,
                Obj([error |-> "Cannot read properties of null"])))
       ELSE Answer(c, HttpResponse(200,
                Arr(setOrder(collectSuggestions(store, query.q)))))
    /\ Fresh(c)
    /\ UNCHANGED <<store, nextId, nodeEnv>>

(***************************************************************************)
(* searchCompanies                                                         *)
(***************************************************************************)
searchFilterTruthyActive(doc, query) ==
    /\ Has(query, "name") /\ query.name # <<>> => regexMatch(doc.name, query.name)
    /\ Has(query, "location") /\ query.location # <<>> =>
            \E i \in 1..Len(locationItems(doc)) :
                regexMatch(locationItems(doc)[i], query.location)
    /\ Has(query, "industry") /\ query.industry # "" => doc.industry = query.industry
    /\ Has(query, "isActive") /\ query.isActive = "true" => doc.isActive
    /\ Has(query, "employees") => Has(doc, "employees") /\ doc.employees >= query.employees
    /\ Has(query, "foundedYear") =>
            Has(doc, "foundedYear") /\ doc.foundedYear = query.foundedYear

\* The filter object built from the query, applied to one document.  A query
\* value is a string, falsy when empty; the numeric ones are non-empty and
\* given as the numbers Number() makes of them.
searchFilter(doc, query) ==
    /\ Has(query, "name") /\ query.name # <<>> => regexMatch(doc.name, query.name)
    /\ Has(query, "location") /\ query.location # <<>> =>
            \E i \in 1..Len(locationItems(doc)) :
                regexMatch(locationItems(doc)[i], query.location)
    /\ Has(query, "industry") /\ query.industry # "" => doc.industry = query.industry
    /\ Has(query, "isActive") => doc.isActive = (query.isActive = "true")
    /\ Has(query, "employees") => Has(doc, "employees") /\ doc.employees >= query.employees
    /\ Has(query, "foundedYear") =>
            Has(doc, "foundedYear") /\ doc.foundedYear = query.foundedYear

SearchQueries ==
    { <<>>, [industry |-> "Technology"], [employees |-> 10],
      [industry |-> "Technology", employees |-> 10],
      [industry |-> "Technology", employees |-> 50],
      [isActive |-> "false"], [isActive |-> "true"], [isActive |-> "1"],
      [isActive |-> "true", industry |-> "Retail"],
      [foundedYear |-> 2000], [foundedYear |-> 2000, employees |-> 10],
      [isActive |-> ""], [industry |-> ""], [industry |-> "", employees |-> 10],
      [name |-> <<"A">>], [location |-> <<"X">>, foundedYear |-> 2000] }

\* The search queries issued among the writes.
SearchProbes == { <<>>, [isActive |-> "false"] }

SearchCompanies(c, query) ==
    /\ Begin(c, [op |-> "search", query |-> query])
    /\ Answer(c, HttpResponse(200,
            Arr([i \in 1..Len(SelectSeq(store, LAMBDA d : searchFilter(d, query))) |->
                    Obj(SelectSeq(store, LAMBDA d : searchFilter(d, query))[i])])))
    /\ Fresh(c)
    /\ UNCHANGED <<store, nextId, nodeEnv>>

(***************************************************************************)
(* Store faults of the handlers with their own catch                       *)
(***************************************************************************)
\* The requests of the try/catch handlers that reach the store.
StoreRequests ==
    {[op |-> "get", id |-> 1]}
    \cup {[op |-> "update", id |-> 1, body |-> [location |-> Null]]}
    \cup {[op |-> "search", query |-> <<>>]}

\* The single store round trip of such a handler fails for a reason of its
\* own; the handler's catch answers.
HandlerStoreFault(c, r, fault) ==
    /\ Begin(c, r)
    /\ Answer(c, HttpResponse(500, Obj([error |-> fault.message])))
    /\ Fresh(c)
    /\ UNCHANGED <<store, nextId, nodeEnv>>

(***************************************************************************)
(* Specification                                                           *)
(***************************************************************************)
NoRequest == [op |-> "none"]

Init ==
    /\ store = <<>>
    /\ nextId = 1
    /\ nodeEnv \in {"development", "production"}
    /\ pc = [c \in Clients |-> "idle"]
    /\ req = [c \in Clients |-> NoRequest]
    /\ resp = [c \in Clients |-> NoResponse]
    /\ nreq = 0
    /\ inserted = [c \in Clients |-> {}]
    /\ preCheck = [c \in Clients |-> "none"]
    /\ delSeen = [c \in Clients |-> FALSE]
    /\ year = CurrentYear
    /\ getHist = [c \in Clients |-> "none"]
    /\ OthersAtRest

Next ==
    \/ \E c \in Clients :
        \/ \E body \in CreateBodies : CreateCompany(c, body)
        \/ CreateFindOne(c)
        \/ CreateInsert(c)
        \/ \E fault \in StoreFaults : CreateStoreFault(c, fault)
    \/ \E c \in SingleStepClients :
        \/ \E query \in ListProbes : GetAllCompanies(c, query)
        \/ \E id \in PathIds : GetCompanyById(c, id)
        \/ \E id \in PathIds, body \in UpdateBodies : UpdateCompany(c, id, body)
        \/ \E id \in PathIds : DeleteCompany(c, id)
        \/ \E query \in SuggestionProbes : SearchSuggestion(c, query)
        \/ \E query \in SearchProbes : SearchCompanies(c, query)
        \/ \E r \in StoreRequests, fault \in StoreFaults : HandlerStoreFault(c, r, fault)

Spec == Init /\ [][Next]_vars

(***************************************************************************)
(* The reads over a store at rest                                          *)
(***************************************************************************)
\* The record a create body is stored as.
created(body) == preSave(castDocument(createFields(body)))

\* Records as creates, and updates of isActive, leave them.
ReadRecords ==
    { created([name |-> <<"A", "c">>, email |-> emailA, industry |-> "Technology",
               location |-> locX, employees |-> 50, foundedYear |-> 2000]),
      applyUpdate(
          created([name |-> <<"a", "b">>, email |-> emailB, industry |-> "Retail",
                   location |-> Arr(<< <<"x">>, <<"a">> >>), employees |-> 9,
                   description |-> <<"d">>, phone |-> <<"1", "2">>]),
          [isActive |-> FALSE], FALSE),
      created([name |-> nameB, email |-> <<"c", "@", "b", ".", "c", "c">>,
               industry |-> "Technology", location |-> Arr(<< <<"A", "c">> >>),
               foundedYear |-> CurrentYear]),
      created([name |-> <<"c">>, email |-> <<"e", "@", "b", ".", "c", "c">>,
               industry |-> "Other", location |-> Arr(<< <<"y">> >>), employees |-> 10,
               website |-> <<"h", "t", "t", "p", ":", "/", "/", "e", ".", "c">>]) }

\* The stores of up to MaxStored of these records, in any order, each passing
\* the validators and the unique indexes.
ReadStores ==
    UNION { { [i \in 1..n |-> withId(docs[i], i)] :
              docs \in { d \in [1..n -> ReadRecords] :
                            /\ \A i \in 1..n : validatorErrors(d[i]) = <<>>
                            /\ \A i, j \in 1..n :
                                  i # j => d[i].name # d[j].name /\ d[i].email # d[j].email } } :
            n \in 0..MaxStored }

InitReads ==
    /\ store \in ReadStores
    /\ nextId = Len(store) + 1
    /\ nodeEnv \in {"development", "production"}
    /\ pc = [c \in Clients |-> "idle"]
    /\ req = [c \in Clients |-> NoRequest]
    /\ resp = [c \in Clients |-> NoResponse]
    /\ nreq = 0
    /\ inserted = [c \in Clients |-> {}]
    /\ preCheck = [c \in Clients |-> "none"]
    /\ delSeen = [c \in Clients |-> FALSE]
    /\ year = CurrentYear
    /\ getHist = [c \in Clients |-> "none"]
    /\ OthersAtRest

\* The year ends: new Date().getFullYear() is one more from here on.
NewYear ==
    /\ year < CurrentYear + MaxYearsOn
    /\ year' = year + 1
    /\ getHist' = [c \in Clients |->
            IF getHist[c] \in {"got", "regot"} THEN "aged" ELSE getHist[c]]
    /\ UNCHANGED <<store, nextId, nodeEnv, pc, req, resp, nreq, inserted, preCheck, delSeen,
                   otherVars>>

NextReads ==
    \/ \E c \in SingleStepClients :
        \/ \E query \in ListQueries : GetAllCompanies(c, query)
        \/ \E id \in PathIds : GetCompanyById(c, id)
        \/ \E query \in SuggestionQueries : SearchSuggestion(c, query)
        \/ \E query \in SearchQueries : SearchCompanies(c, query)
    \/ NewYear

SpecReads == InitReads /\ [][NextReads]_vars

(***************************************************************************)
(* The envelope constructors and the employee range on their own           *)
(***************************************************************************)
\* No company request is in flight and none has been made.
CompanyAtRest ==
    /\ store = <<>>
    /\ nextId = 1
    /\ nodeEnv \in {"development", "production"}
    /\ pc = [c \in Clients |-> "idle"]
    /\ req = [c \in Clients |-> NoRequest]
    /\ resp = [c \in Clients |-> NoResponse]
    /\ nreq = 0
    /\ inserted = [c \in Clients |-> {}]
    /\ preCheck = [c \in Clients |-> "none"]
    /\ delSeen = [c \in Clients |-> FALSE]
    /\ year = CurrentYear
    /\ getHist = [c \in Clients |-> "none"]

\* ApiError.toJSON() of new ApiError(statusCode, message, errors): the success
\* field is the class field initialiser, whatever the status code.
ApiErrorToJSON(statusCode, message, errors) ==
    Obj([success |-> FALSE, statusCode |-> statusCode, message |-> message,
         errors |-> errors, timestamp |-> "now"])

\* Status codes a constructor is called with: the ones the factories and the
\* handlers pass, and others a caller of the exported classes may pass.
StatusCodes == {200, 201, 204, 302, 399, 400, 404, 409, 500, 504}

\* Employee counts within the schema's min and max, around each threshold.
EmployeeCounts ==
    {1, 9, 10, 11, 49, 50, 51, 199, 200, 201, 999, 1000, 1001, 10000000}

\* Documents with and without an employee count.
RangeDocs ==
    {[name |-> nameB]} \cup {[name |-> nameB, employees |-> n] : n \in EmployeeCounts}

InitValues ==
    /\ CompanyAtRest
    /\ RequestAtRest
    /\ DatabaseAtRest
    /\ exitCode = -1
    /\ ServerAtRest
    /\ ctorArgs \in [statusCode : StatusCodes, message : {"Success", "Something went wrong"}]
    /\ envelope = Unset
    /\ rangeDoc \in RangeDocs
    /\ rangeOut = Unset

\* new ApiResponse(statusCode, message, data).toJSON()
ConstructApiResponse ==
    /\ envelope' = ApiResponse(ctorArgs.statusCode, ctorArgs.message, Null)
    /\ UNCHANGED <<companyVars, requestVars, databaseVars, exitCode, serverVars, ctorArgs, rangeDoc, rangeOut>>

\* new ApiError(statusCode, message).toJSON()
ConstructApiError ==
    /\ envelope' = ApiErrorToJSON(ctorArgs.statusCode, ctorArgs.message, <<>>)
    /\ UNCHANGED <<companyVars, requestVars, databaseVars, exitCode, serverVars, ctorArgs, rangeDoc, rangeOut>>

\* doc.employeeRange and doc.getEmployeeRange()
ReadEmployeeRange ==
    /\ rangeOut' = [virtual |-> employeeRange(rangeDoc), method |-> getEmployeeRange(rangeDoc)]
    /\ UNCHANGED <<companyVars, requestVars, databaseVars, exitCode, serverVars, ctorArgs, envelope, rangeDoc>>

NextValues ==
    \/ ConstructApiResponse
    \/ ConstructApiError
    \/ ReadEmployeeRange

SpecValues == InitValues /\ [][NextValues]_vars

(***************************************************************************)
(* One request through timeoutHandler, the route and the error middleware  *)
(***************************************************************************)
\* The route handlers by the way they are written: createCompany is an async
\* function wrapped by asyncHandler and throws its errors; getCompanyById (as
\* the five other company handlers) is an async function registered as it is
\* and answers from its own try/catch; ping is wrapped and answers without
\* awaiting; syncHandler stands for a wrapped function of the type
\* AsyncRequestHandler that is not async and may throw before it returns.
RouteHandlers == {"createCompany", "getCompanyById", "ping", "syncHandler"}

Wrapped(f) == f \in {"createCompany", "ping", "syncHandler"}

\* What a handler call came to.
Fulfilled == [state |-> "fulfilled"]

Rejected(err) == [state |-> "rejected", err |-> err]

Threw(err) == [state |-> "threw", err |-> err]

Pending == [state |-> "pending"]

\* The error res.json raises once the headers have been sent.
HeadersSentError ==
    [name |-> "Error", message |-> "Cannot set headers after they are sent to the client",
     statusCode |-> 0, isOperational |-> FALSE, code |-> 0, errors |-> <<>>]

\* The response, the next calls, the connection and the process as one value
\* that the steps of a handler pass along; threw is set by a res.json that
\* raised.
Exchange ==
    [headersSent |-> headersSent, responses |-> responses, nextCalls |-> nextCalls,
     socket |-> socket, process |-> process, threw |-> FALSE]

\* res.status(status).json(...) called by a handler or an error handler.
resJson(x, by, status) ==
    IF x.headersSent
    THEN [x EXCEPT !.threw = TRUE]
    ELSE [x EXCEPT !.headersSent = TRUE,
                   !.responses = Append(@, [by |-> by, status |-> status]),
                   !.threw = FALSE]

\* next(err): the router runs the error middleware; corsErrorHandler passes
\* the error on and globalErrorHandler answers.  When its res.json raises,
\* the router passes that error to its final handler, which finds the headers
\* sent and destroys the connection.
nextWithError(x, by, err) ==
    LET called == [x EXCEPT !.nextCalls = Append(@, [by |-> by, err |-> err])]
        sent == resJson(called, "globalErrorHandler",
                        globalErrorHandler(err, "/", "GET").status)
    IN  IF sent.threw
        THEN [sent EXCEPT !.socket = "destroyed", !.threw = FALSE]
        ELSE sent

asyncHandlerNoCatch(x, outcome) ==
    IF outcome.state = "threw" THEN nextWithError(x, "router", outcome.err) ELSE x

\* asyncHandler(fn)(req, res, next): Promise.resolve(fn(...)).catch(next).  An
\* exception fn raises before it returns leaves the wrapper, and the router's
\* layer that called the wrapper passes it to next.
asyncHandler(x, outcome) ==
    CASE outcome.state = "rejected" -> nextWithError(x, "asyncHandler", outcome.err)
      [] outcome.state = "threw" -> nextWithError(x, "router", outcome.err)
      [] OTHER -> x

\* A handler registered without a wrapper: a router that awaits its handlers
\* passes the rejection to next; otherwise the rejection is unhandled and the
\* process's unhandledRejection listener calls process.exit(1).
unwrappedHandler(x, outcome) ==
    IF outcome.state # "rejected" THEN x
    ELSE IF routerAwaits THEN nextWithError(x, "router", outcome.err)
    ELSE [x EXCEPT !.process = "exit 1"]

\* The promise of a handler that ends by answering: res.json raising inside
\* an async function rejects its promise.
answered(x) == IF x.threw THEN Rejected(HeadersSentError) ELSE Fulfilled

\* createCompany from its last await on: the store call's result decides.
createCompanyTail(x, result) ==
    IF result = "resolves"
    THEN LET sent == resJson(x, "handler", 201)
         IN  [exchange |-> sent, outcome |-> answered(sent)]
    ELSE [exchange |-> x, outcome |-> Rejected(ApiError(400, "Already existing company", <<>>))]

\* getCompanyById from its await on: the try block answers 200, the catch
\* block answers 500, also when it was the try block's res.json that raised.
getCompanyByIdTail(x, result) ==
    LET tried == IF result = "resolves" THEN resJson(x, "handler", 200)
                 ELSE [x EXCEPT !.threw = TRUE]
        caught == IF tried.threw THEN resJson(tried, "handler", 500) ELSE tried
    IN  [exchange |-> caught, outcome |-> answered(caught)]

\* The exchange and the promise after the handler's run.
Settled(ran, wrapped) ==
    LET x == IF wrapped THEN asyncHandler(ran.exchange, ran.outcome)
             ELSE unwrappedHandler(ran.exchange, ran.outcome)
    IN  /\ headersSent' = x.headersSent
        /\ responses' = x.responses
        /\ nextCalls' = x.nextCalls
        /\ socket' = x.socket
        /\ process' = x.process
        /\ promise' = ran.outcome

StoreResults == {"resolves", "rejects"}

InitRequest ==
    /\ CompanyAtRest
    /\ ValuesAtRest
    /\ DatabaseAtRest
    /\ exitCode = -1
    /\ ServerAtRest
    /\ fn \in RouteHandlers
    /\ routerAwaits \in BOOLEAN
    /\ promise = Unset
    /\ timer = "none"
    /\ headersSent = FALSE
    /\ finished = FALSE
    /\ responses = <<>>
    /\ nextCalls = <<>>
    /\ socket = "open"
    /\ process = "up"

\* The request reaches timeoutHandler, which arms the timer and calls next();
\* the route's handler runs to its first await, or to its end.
ReceiveRequest(head) ==
    /\ process = "up"
    /\ timer = "none"
    /\ timer' = "armed"
    /\ CASE fn = "ping" ->
              /\ head = "answers"
              /\ LET sent == resJson(Exchange, "handler", 200)
                 IN  Settled([exchange |-> sent, outcome |-> answered(sent)], TRUE)
         [] fn = "createCompany" ->
              /\ head \in {"throws", "awaits"}
              /\ IF head = "throws"
                 THEN Settled([exchange |-> Exchange,
                               outcome |-> Rejected(badRequest("Missing fields", <<>>))],
                              TRUE)
                 ELSE Settled([exchange |-> Exchange, outcome |-> Pending], TRUE)
         [] fn = "getCompanyById" ->
              /\ head = "awaits"
              /\ Settled([exchange |-> Exchange, outcome |-> Pending], FALSE)
         [] fn = "syncHandler" ->
              /\ head \in {"throws", "awaits"}
              /\ IF head = "throws"
                 THEN Settled([exchange |-> Exchange,
                               outcome |-> Threw(badRequest("Missing fields", <<>>))],
                              TRUE)
                 ELSE Settled([exchange |-> Exchange, outcome |-> Pending], TRUE)
    /\ UNCHANGED <<companyVars, valueVars, databaseVars, exitCode, serverVars, fn, routerAwaits, finished>>

\* The store call the handler awaits settles and the handler runs to its end.
HandlerResumes(result) ==
    /\ process = "up"
    /\ promise = Pending
    /\ IF fn = "getCompanyById"
       THEN Settled(getCompanyByIdTail(Exchange, result), FALSE)
       ELSE Settled(createCompanyTail(Exchange, result), TRUE)
    /\ UNCHANGED <<companyVars, valueVars, databaseVars, exitCode, serverVars, fn, routerAwaits, timer, finished>>

\* The 30 seconds pass: the timer's callback runs.
TimerFires ==
    /\ process = "up"
    /\ timer = "armed"
    /\ timer' = "fired"
    /\ LET x == IF ~headersSent
                THEN nextWithError(Exchange, "timeoutHandler", gatewayTimeout("Request timeout"))
                ELSE Exchange
       IN  /\ headersSent' = x.headersSent
           /\ responses' = x.responses
           /\ nextCalls' = x.nextCalls
           /\ socket' = x.socket
    /\ UNCHANGED <<companyVars, valueVars, databaseVars, exitCode, serverVars, fn, routerAwaits, promise, finished, process>>

\* The response has been written out: 'finish' is emitted and its listener
\* clears the timer.
ResponseFinishes ==
    /\ process = "up"
    /\ headersSent
    /\ ~finished
    /\ finished' = TRUE
    /\ timer' = IF timer = "armed" THEN "cleared" ELSE timer
    /\ UNCHANGED <<companyVars, valueVars, databaseVars, exitCode, serverVars, fn, routerAwaits, promise, headersSent,
                   responses, nextCalls, socket, process>>

NextRequest ==
    \/ \E head \in {"answers", "throws", "awaits"} : ReceiveRequest(head)
    \/ \E result \in StoreResults : HandlerResumes(result)
    \/ TimerFires
    \/ ResponseFinishes

SpecRequest == InitRequest /\ [][NextRequest]_vars

(***************************************************************************)
(* The Database singleton                                                  *)
(***************************************************************************)
\* mongoose.connect(uri, options) is called: a connection that is closed is
\* opened; on a connection that is open or being opened the call opens
\* nothing and resolves with it.
mongooseConnect ==
    /\ connectsPending' = connectsPending + 1
    /\ IF readyState = "disconnected"
       THEN /\ readyState' = "connecting"
            /\ opened' = opened \cup {readyState}
            /\ lost' = FALSE
       ELSE UNCHANGED <<readyState, opened, lost>>

\* Database.connect() up to its await.
databaseConnect ==
    IF isConnected
    THEN UNCHANGED <<readyState, lost, connectsPending, opened>>
    ELSE mongooseConnect

\* mongoose.connect resolved: connect() sets the flag and adds the listeners.
connectResolved ==
    /\ connectsPending > 0
    /\ readyState \in {"connecting", "connected"}
    /\ connectsPending' = connectsPending - 1
    /\ readyState' = "connected"
    /\ isConnected' = TRUE
    /\ dbListeners' = dbListeners + 1

\* The 'disconnected' event: each listener setupEventListeners added clears
\* the flag.
onDisconnected == IF dbListeners > 0 THEN FALSE ELSE isConnected

\* Database.disconnect() up to its await.
databaseDisconnect ==
    IF ~isConnected
    THEN UNCHANGED <<readyState, closesPending>>
    ELSE /\ closesPending' = closesPending + 1
         /\ readyState' = "disconnecting"

InitDatabase ==
    /\ CompanyAtRest
    /\ ValuesAtRest
    /\ RequestAtRest
    /\ DatabaseAtRest
    /\ exitCode = -1
    /\ ServerAtRest

\* database.connect() is called.
Connect ==
    /\ exitCode = -1
    /\ dbCalls < MaxDbCalls
    /\ dbCalls' = dbCalls + 1
    /\ databaseConnect
    /\ UNCHANGED <<companyVars, valueVars, requestVars, serverVars, exitCode, isConnected,
                   closesPending, dbListeners>>

\* The mongoose.connect a connect() call awaits resolves.
ConnectResolves ==
    /\ exitCode = -1
    /\ connectResolved
    /\ UNCHANGED <<companyVars, valueVars, requestVars, serverVars, exitCode, lost, closesPending,
                   opened, dbCalls>>

\* The mongoose.connect a connect() call awaits rejects: the catch block of
\* connect() ends the process.
ConnectRejects ==
    /\ exitCode = -1
    /\ connectsPending > 0
    /\ readyState = "connecting"
    /\ exitCode' = 1
    /\ UNCHANGED <<companyVars, valueVars, requestVars, serverVars, databaseVars>>

\* The connection to the server drops; the driver goes on to reconnect.
ConnectionLost ==
    /\ exitCode = -1
    /\ readyState = "connected"
    /\ readyState' = "disconnected"
    /\ lost' = TRUE
    /\ isConnected' = onDisconnected
    /\ UNCHANGED <<companyVars, valueVars, requestVars, serverVars, exitCode, connectsPending,
                   closesPending, dbListeners, opened, dbCalls>>

\* The driver has reconnected: 'connected' is emitted, its listener logs.
Reconnected ==
    /\ exitCode = -1
    /\ lost
    /\ readyState = "disconnected"
    /\ readyState' = "connected"
    /\ lost' = FALSE
    /\ UNCHANGED <<companyVars, valueVars, requestVars, serverVars, exitCode, isConnected,
                   connectsPending, closesPending, dbListeners, opened, dbCalls>>

\* database.disconnect() is called.
Disconnect ==
    /\ exitCode = -1
    /\ dbCalls < MaxDbCalls
    /\ dbCalls' = dbCalls + 1
    /\ databaseDisconnect
    /\ UNCHANGED <<companyVars, valueVars, requestVars, serverVars, exitCode, isConnected, lost,
                   connectsPending, dbListeners, opened>>

\* The connection.close a disconnect() call awaits resolves: 'disconnected'
\* is emitted and disconnect() clears the flag.
CloseResolves ==
    /\ exitCode = -1
    /\ closesPending > 0
    /\ closesPending' = closesPending - 1
    /\ readyState' = "disconnected"
    /\ lost' = FALSE
    /\ isConnected' = FALSE
    /\ UNCHANGED <<companyVars, valueVars, requestVars, serverVars, exitCode, connectsPending,
                   dbListeners, opened, dbCalls>>

NextDatabase ==
    \/ Connect
    \/ ConnectResolves
    \/ ConnectRejects
    \/ ConnectionLost
    \/ Reconnected
    \/ Disconnect
    \/ CloseResolves

SpecDatabase == InitDatabase /\ [][NextDatabase]_vars

(***************************************************************************)
(* The server process from initializeServer to its exit                    *)
(***************************************************************************)
\* connectToDatabase(retries = 5, delay = 5000)
Retries == 5

InitialDelay == 5000

\* What connectToDatabase gets from database.connect(): connect() catches the
\* failure of mongoose.connect itself and ends the process, so its promise
\* is never rejected.
databaseConnectOutcome(result) ==
    IF result = "resolves" THEN "resolved" ELSE "exit"

\* The body of connectToDatabase's loop after the await: return, or the catch
\* block with its last-attempt exit, its wait and delay *= 1.5.
connectToDatabaseStep(outcome) ==
    CASE outcome = "resolved" ->
            [initPc |-> "startServer", exitCode |-> exitCode, delay |-> delay]
      [] outcome = "exit" ->
            [initPc |-> initPc, exitCode |-> 1, delay |-> delay]
      [] outcome = "rejected" /\ attempt = Retries ->
            [initPc |-> initPc, exitCode |-> 1, delay |-> delay]
      [] outcome = "rejected" /\ attempt # Retries ->
            [initPc |-> "connect", exitCode |-> exitCode, delay |-> (delay * 3) \div 2]

\* The listeners of a signal run in the order they were registered, each to
\* its first await, until one ends the process: the one app.ts registers
\* calls process.exit(0); Database.gracefulShutdown awaits disconnect(); the
\* one setupGracefulShutdown registers calls server.close and arms the timer.
RECURSIVE runSignalListeners(_, _)
runSignalListeners(listeners, x) ==
    IF listeners = <<>> \/ x.exitCode # -1 THEN x
    ELSE runSignalListeners(Tail(listeners),
            CASE Head(listeners) = "app" -> [x EXCEPT !.exitCode = 0]
              [] Head(listeners) = "database" -> [x EXCEPT !.disconnects = @ + 1]
              [] Head(listeners) = "server" ->
                    [x EXCEPT !.httpServer = "closing", !.forceTimer = "armed"])

ValidateEnvironmentWithDefault ==
    /\ initPc = "start"
    /\ initPc' = "connect"
    /\ UNCHANGED exitCode

\* validateEnvironment(): MONGODB_URI missing ends the process.
ValidateEnvironment ==
    /\ initPc = "start"
    /\ IF mongodbUri
       THEN initPc' = "connect" /\ UNCHANGED exitCode
       ELSE exitCode' = 1 /\ UNCHANGED initPc

\* The module is loaded: app.ts has registered its signal listeners, the
\* Database singleton exists, initializeServer is about to run.
InitServer ==
    /\ CompanyAtRest
    /\ ValuesAtRest
    /\ RequestAtRest
    /\ DatabaseAtRest
    /\ exitCode = -1
    /\ mongodbUri \in BOOLEAN
    /\ initPc = "start"
    /\ attempt = 0
    /\ delay = InitialDelay
    /\ httpServer = "none"
    /\ signalListeners = <<"app">>
    /\ forceTimer = "none"
    /\ signal = "none"
    /\ health = "none"

\* initializeServer, step 1.
Validate ==
    /\ exitCode = -1
    /\ ValidateEnvironment
    /\ UNCHANGED <<companyVars, valueVars, requestVars, databaseVars, mongodbUri,
                   attempt, delay, httpServer, signalListeners, forceTimer, signal, health>>

\* connectToDatabase begins an attempt: database.connect() is called.
ConnectAttempt ==
    /\ exitCode = -1
    /\ initPc = "connect"
    /\ attempt < Retries
    /\ attempt' = attempt + 1
    /\ initPc' = "connecting"
    /\ databaseConnect
    /\ UNCHANGED <<companyVars, valueVars, requestVars, exitCode, isConnected,
                   closesPending, dbListeners, dbCalls, mongodbUri, delay, httpServer,
                   signalListeners, forceTimer, signal, health>>

\* The attempt's mongoose.connect settles.  On success connect() registers
\* its listeners, connectToDatabase returns and startServer calls app.listen.
ConnectSettles(result) ==
    /\ exitCode = -1
    /\ initPc = "connecting"
    /\ LET step == connectToDatabaseStep(databaseConnectOutcome(result))
       IN  /\ initPc' = step.initPc
           /\ exitCode' = step.exitCode
           /\ delay' = step.delay
    /\ IF result = "resolves"
       THEN /\ connectResolved
            /\ signalListeners' = Append(signalListeners, "database")
            /\ httpServer' = "starting"
            /\ UNCHANGED <<lost, closesPending, opened, dbCalls>>
       ELSE /\ readyState = "connecting"
            /\ UNCHANGED <<databaseVars, signalListeners, httpServer>>
    /\ UNCHANGED <<companyVars, valueVars, requestVars, mongodbUri, attempt, forceTimer,
                   signal, health>>

\* app.listen succeeds: startServer resolves and setupGracefulShutdown
\* registers its listeners.
ServerListens ==
    /\ exitCode = -1
    /\ initPc = "startServer"
    /\ initPc' = "ready"
    /\ httpServer' = "listening"
    /\ signalListeners' = Append(signalListeners, "server")
    /\ UNCHANGED <<companyVars, valueVars, requestVars, databaseVars, exitCode, mongodbUri,
                   attempt, delay, forceTimer, signal, health>>

\* app.listen fails (the port is in use): startServer rejects and the catch
\* block of initializeServer ends the process.
ServerError ==
    /\ exitCode = -1
    /\ initPc = "startServer"
    /\ httpServer' = "none"
    /\ exitCode' = 1
    /\ UNCHANGED <<companyVars, valueVars, requestVars, databaseVars, mongodbUri, initPc,
                   attempt, delay, signalListeners, forceTimer, signal, health>>

\* SIGTERM or SIGINT arrives.
Signal(sig) ==
    /\ exitCode = -1
    /\ signal = "none"
    /\ signal' = sig
    /\ LET x == runSignalListeners(signalListeners,
                    [exitCode |-> exitCode, httpServer |-> httpServer,
                     forceTimer |-> forceTimer, disconnects |-> 0])
       IN  /\ exitCode' = x.exitCode
           /\ httpServer' = x.httpServer
           /\ forceTimer' = x.forceTimer
           /\ closesPending' = closesPending + (IF isConnected THEN x.disconnects ELSE 0)
    /\ UNCHANGED <<companyVars, valueVars, requestVars, isConnected, readyState, lost,
                   connectsPending, dbListeners, opened, dbCalls, mongodbUri, initPc,
                   attempt, delay, signalListeners, health>>

\* performHealthCheck(): the Database singleton's status.
PerformHealthCheck ==
    /\ exitCode = -1
    /\ health' = isConnected
    /\ UNCHANGED <<companyVars, valueVars, requestVars, databaseVars, exitCode, mongodbUri,
                   initPc, attempt, delay, httpServer, signalListeners, forceTimer, signal>>

NextServer ==
    \/ Validate
    \/ ConnectAttempt
    \/ \E result \in {"resolves", "rejects"} : ConnectSettles(result)
    \/ ServerListens
    \/ ServerError
    \/ \E sig \in {"SIGTERM", "SIGINT"} : Signal(sig)
    \/ ConnectionLost
    \/ Reconnected
    \/ PerformHealthCheck

SpecServer == InitServer /\ [][NextServer]_vars


(***************************************************************************)
(* Properties                                                              *)
(***************************************************************************)
\* Client c's create request has been answered.
DoneCreate(c) == req[c].op = "create" /\ pc[c] = "idle" /\ resp[c].status # 0

IndustryValues ==
    {"Technology", "Healthcare", "Manufacturing", "Financial Services", "Retail",
     "Education", "Construction", "Transportation", "Entertainment", "Other"}

AllowListed == {"logo", "description", "location", "phone", "isActive"}

\* name and email not blank, industry given, location a non-empty list of
\* non-blank strings.
FieldShapeValid(body) ==
    /\ Has(body, "name") /\ trim(body.name) # <<>>
    /\ Has(body, "email") /\ trim(body.email) # <<>>
    /\ Has(body, "industry") /\ body.industry # ""
    /\ Has(body, "location") /\ isArray(body.location)
    /\ Len(body.location.items) > 0
    /\ \A i \in 1..Len(body.location.items) : trim(body.location.items[i]) # <<>>

\* A create body that nothing but a duplicate can get rejected.
ValidCreate(body) ==
    /\ FieldShapeValid(body)
    /\ body.industry \in IndustryValues
    /\ validatorErrors(castDocument(createFields(body))) = <<>>

\* The answer to c's create reports a failed store round trip.
Faulted(c) == resp[c].status \in {500, 503}

\* No record other than those the two requests stored has the name or the
\* email of either request.
NoThirdConflict(c, d) ==
    \A i \in 1..Len(store) :
        store[i]["_id"] \notin inserted[c] \cup inserted[d] =>
            \A x \in {c, d} :
                /\ store[i].name # applySetters("name", req[x].body.name)
                /\ store[i].email # applySetters("email", req[x].body.email)

\* Two answered creates of equal name or equal email, otherwise valid, with no
\* delete since the earlier of them began.
ConflictingPair(c, d) ==
    /\ c # d
    /\ DoneCreate(c) /\ DoneCreate(d)
    /\ ValidCreate(req[c].body) /\ ValidCreate(req[d].body)
    /\ \/ req[c].body.name = req[d].body.name
       \/ req[c].body.email = req[d].body.email
    /\ ~Faulted(c) /\ ~Faulted(d)
    /\ ~delSeen[c] /\ ~delSeen[d]
    /\ NoThirdConflict(c, d)

\* C1: of two otherwise valid creates with an equal name or an equal email,
\* in either order or interleaved and with no delete between them, exactly
\* one is answered 201
\* and has stored exactly the record it returns; the other is answered 400 or
\* 409 and has stored nothing.
C1_ExactlyOneCreateSucceeds ==
    \A c, d \in Clients :
        ConflictingPair(c, d) =>
            /\ Cardinality({x \in {c, d} : resp[x].status = 201}) = 1
            /\ \A x \in {c, d} :
                IF resp[x].status = 201
                THEN /\ inserted[x] = {resp[x].json.fields.data.fields["_id"]}
                     /\ \E i \in 1..Len(store) : store[i]["_id"] \in inserted[x]
                ELSE /\ resp[x].status \in {400, 409}
                     /\ inserted[x] = {}

\* Two interleaved creates of equal name: both passed the pre-check, the index
\* refused the second insert.
C1_Witness ==
    \E c, d \in Clients :
        /\ ConflictingPair(c, d)
        /\ resp[c].status = 201
        /\ resp[d].status = 409
        /\ preCheck[d] = "clear"

\* C2: no two distinct stored records have the same name, and no two have the
\* same email.
C2_NameEmailUnique ==
    \A i, j \in 1..Len(store) :
        i # j => store[i].name # store[j].name /\ store[i].email # store[j].email

\* Two records stored, and a create refused by a unique index.
C2_Witness ==
    /\ Len(store) = 2
    /\ \E c \in Clients : DoneCreate(c) /\ resp[c].status = 409

\* C3: a create request has inserted a record only if its field-shape
\* validation, its duplicate pre-check and its industry check all passed; an
\* answered create for which one of them did not pass got an error and has
\* inserted nothing.
C3_InsertOnlyAfterChecks ==
    \A c \in Clients :
        LET passed == /\ FieldShapeValid(req[c].body)
                      /\ preCheck[c] = "clear"
                      /\ req[c].body.industry \in IndustryValues
        IN  /\ inserted[c] # {} => req[c].op = "create" /\ passed
            /\ DoneCreate(c) /\ ~passed => resp[c].status >= 400 /\ inserted[c] = {}

\* One create has inserted, another was turned down by each of the checks.
C3_Witness ==
    /\ \E c \in Clients : DoneCreate(c) /\ inserted[c] # {}
    /\ \E c \in Clients :
        /\ DoneCreate(c)
        /\ resp[c].status = 400
        /\ \/ ~FieldShapeValid(req[c].body)
           \/ preCheck[c] = "found"
           \/ preCheck[c] = "clear" /\ req[c].body.industry \notin IndustryValues

\* The violation messages a response carries, wherever it carries them.
ReportedErrors(r) ==
    LET f == r.json.fields
    IN  IF Has(f, "errors") THEN {f.errors[i] : i \in 1..Len(f.errors)}
        ELSE IF Has(f, "error") THEN {f.error.errors[i] : i \in 1..Len(f.error.errors)}
        ELSE {}

\* C4: a create without name, email and industry is answered by one 400
\* response that reports the three violations, in every run mode.
C4_AllViolationsReported ==
    \A c \in Clients :
        /\ DoneCreate(c)
        /\ DOMAIN req[c].body \cap {"name", "email", "industry"} = {}
        => /\ resp[c].status = 400
           /\ {"Name is required", "Email is required", "Industry is required"}
                  \subseteq ReportedErrors(resp[c])

\* Client c begins a request of the given operation in this step.
BeginsBy(c, op) ==
    /\ nreq' = nreq + 1
    /\ req'[c].op = op
    /\ c \in SingleStepClients \/ pc'[c] # pc[c]
    /\ \A d \in Clients \ {c} : pc'[d] = pc[d] /\ req'[d] = req[d] /\ resp'[d] = resp[d]

\* C5: an update whose body has no allow-listed key is answered 400 'No
\* fields provided to update' and the step leaves the store as it was.
C5_NoAllowedFieldNoWrite ==
    [][\A c \in Clients :
          BeginsBy(c, "update") /\ DOMAIN req'[c].body \cap AllowListed = {} =>
              /\ resp'[c].status = 400
              /\ Has(resp'[c].json.fields, "message")
              /\ resp'[c].json.fields.message = "No fields provided to update"
              /\ store' = store]_vars

\* Such an update, addressed to a stored record and carrying other keys.
C5_Witness ==
    \E c \in Clients :
        /\ req[c].op = "update"
        /\ DOMAIN req[c].body # {}
        /\ DOMAIN req[c].body \cap AllowListed = {}
        /\ indexOfId(req[c].id) # 0
        /\ resp[c].status = 400

\* C6: an update step keeps the number and order of the records, changes no
\* record but the target, and keeps every field outside the allow-list,
\* present or absent, as it was.
C6_UpdateFrame ==
    [][\A c \in Clients :
          BeginsBy(c, "update") =>
              /\ Len(store') = Len(store)
              /\ \A i \in 1..Len(store) :
                    /\ store[i]["_id"] # req'[c].id => store'[i] = store[i]
                    /\ DOMAIN store'[i] \ AllowListed = DOMAIN store[i] \ AllowListed
                    /\ \A k \in DOMAIN store[i] \ AllowListed :
                            store'[i][k] = store[i][k]]_vars

\* An update that carried a different name besides allow-listed keys went
\* through.
C6_Witness ==
    \E c \in Clients :
        /\ req[c].op = "update"
        /\ resp[c].status = 200
        /\ Has(req[c].body, "name")
        /\ indexOfId(req[c].id) # 0
        /\ store[indexOfId(req[c].id)].name # req[c].body.name
        /\ Has(store[indexOfId(req[c].id)], "logo")

\* C7: every stored record's location is a list with at least one entry.
C7_LocationNonEmpty ==
    \A i \in 1..Len(store) :
        isArray(store[i].location) /\ Len(store[i].location.items) >= 1

\* C8: a create rejected as a duplicate, by the pre-check or by a unique
\* index, gets the status the pre-check's rejection has.
C8_SameConflictStatus ==
    \A c \in Clients :
        /\ DoneCreate(c)
        /\ resp[c].json.fields.message \in
               {"Already existing company",
                "Duplicate field value. Please use another value."}
        => resp[c].status = 400

\* C9: a create is answered 201, 400 or 500 and nothing else.
C9_CreateStatuses ==
    \A c \in Clients : DoneCreate(c) => resp[c].status \in {201, 400, 500}

\* C10: every response of the seven operations is an envelope object with
\* success, statusCode, message and timestamp.
C10_EveryResponseEnvelope ==
    \A c \in Clients :
        resp[c].status # 0 =>
            /\ resp[c].json.type = "object"
            /\ {"success", "statusCode", "message", "timestamp"}
                   \subseteq DOMAIN resp[c].json.fields

\* The message texts of the errors the driver and the ODM raise.
RawErrorMessages ==
    {fault.message : fault \in StoreFaults}
    \cup {CastError.message, DuplicateKeyError.message}

\* C11: outside development mode no response of a company operation carries
\* the text of the raw error behind a non-operational failure, so responses to
\* failures that differ only in that text are equal.
C11_NoRawErrorText ==
    nodeEnv # "development" =>
        \A c \in Clients :
            resp[c].status # 0 /\ resp[c].json.type = "object" =>
                \A k \in DOMAIN resp[c].json.fields \cap {"message", "error"} :
                    resp[c].json.fields[k] \notin RawErrorMessages

\* The ids the store has issued whose record is no longer stored.
DeletedIds == {id \in 1..(nextId - 1) : indexOfId(id) = 0}

\* No record with this id is stored after the step.
AbsentAfter(id) == \A i \in 1..Len(store') : store'[i]["_id"] # id

\* The ids of the records a list or search response carries.
ItemIds(r) == {r.json.items[i].fields["_id"] : i \in 1..Len(r.json.items)}

\* The name, industry and location entries of the stored records.
StoredValues ==
    UNION {{store[i].name, industryText(store[i].industry)}
           \cup {locationItems(store[i])[j] : j \in 1..Len(locationItems(store[i]))} :
           i \in 1..Len(store)}

\* A delete answered 200 leaves no record of that id, a deleted id stays
\* absent, and no list, search or suggestion response carries a deleted record.
HardDelete(c) ==
    /\ BeginsBy(c, "delete") /\ resp'[c].status = 200 => AbsentAfter(req'[c].id)
    /\ \A id \in DeletedIds : AbsentAfter(id)
    /\ (BeginsBy(c, "list") \/ BeginsBy(c, "search")) /\ resp'[c].status = 200 =>
            ItemIds(resp'[c]) \cap DeletedIds = {}
    /\ BeginsBy(c, "suggest") /\ resp'[c].status = 200 =>
            \A i \in 1..Len(resp'[c].json.items) : resp'[c].json.items[i] \in StoredValues

\* C12 as stated: after a delete answered 200 the record is gone for good, and
\* every later get-by-id, update or delete of that id that the store serves is
\* answered 404.
C12_DeletedThen404 ==
    [][\A c \in Clients :
          /\ HardDelete(c)
          /\ \A op \in {"get", "update", "delete"} :
                BeginsBy(c, op) /\ req'[c].id \in DeletedIds /\ resp'[c].status # 500 =>
                    resp'[c].status = 404]_vars

\* C12 amended: as above, except that an update of a deleted id whose body has
\* no allow-listed key is answered 400, and a request whose store call fails
\* is answered 500.
C12_DeletedThen404OrNoFields ==
    [][\A c \in Clients :
          /\ HardDelete(c)
          /\ \A op \in {"get", "delete"} :
                BeginsBy(c, op) /\ req'[c].id \in DeletedIds =>
                    resp'[c].status \in {404, 500}
          /\ BeginsBy(c, "update") /\ req'[c].id \in DeletedIds =>
                IF DOMAIN req'[c].body \cap AllowListed = {}
                THEN resp'[c].status = 400
                ELSE resp'[c].status \in {404, 500}]_vars

\* A get-by-id of a deleted id was answered 404.
C12_Witness ==
    \E c \in Clients :
        /\ req[c].op = "get"
        /\ req[c].id \in DeletedIds
        /\ resp[c].status = 404

\* C13 as stated: a get-by-id leaves the store as it was, and a get-by-id that
\* follows the same client's get-by-id of the same id, both answered 200,
\* returns the data the first returned.
C13_GetIdempotent ==
    [][\A c \in Clients :
          BeginsBy(c, "get") =>
              /\ store' = store
              /\ req[c].op = "get" /\ req[c].id = req'[c].id
                 /\ resp[c].status = 200 /\ resp'[c].status = 200
                 => resp'[c].json = resp[c].json]_vars

\* C13 amended: the same, for two get-by-id requests answered in the same
\* calendar year.
C13_GetIdempotentWithinYear ==
    [][\A c \in Clients :
          BeginsBy(c, "get") =>
              /\ store' = store
              /\ getHist'[c] = "regot" /\ resp[c].status = 200 /\ resp'[c].status = 200
                 => resp'[c].json = resp[c].json]_vars

\* A record with a founded year was read twice in a row after a year end.
C13_Witness ==
    \E c \in Clients :
        /\ getHist[c] = "regot"
        /\ resp[c].status = 200
        /\ Has(resp[c].json.fields, "foundedYear")
        /\ year > CurrentYear

\* The constraints of the search parameters a query gives; a parameter given
\* with an empty value counts as not given, except isActive.
SatisfiesGiven(doc, query) ==
    /\ Has(query, "industry") /\ query.industry # "" => doc.industry = query.industry
    /\ Has(query, "employees") => Has(doc, "employees") /\ doc.employees >= query.employees
    /\ Has(query, "foundedYear") =>
            Has(doc, "foundedYear") /\ doc.foundedYear = query.foundedYear
    /\ Has(query, "isActive") => doc.isActive = (query.isActive = "true")

\* C14: a search by industry, employees, foundedYear and isActive returns
\* each stored record that satisfies the constraints of all the parameters
\* given, once, and no other record.
C14_SearchIsConjunction ==
    \A c \in Clients :
        /\ req[c].op = "search"
        /\ resp[c].status = 200
        /\ DOMAIN req[c].query \subseteq {"industry", "employees", "foundedYear", "isActive"}
        => LET items == resp[c].json.items
               matching == {i \in 1..Len(store) : SatisfiesGiven(store[i], req[c].query)}
           IN  /\ {items[k] : k \in 1..Len(items)} = {Obj(store[i]) : i \in matching}
               /\ Len(items) = Cardinality(matching)

\* A search by industry and employees returned one of three records: one of
\* the others fails the industry, the other the employees constraint.
C14_Witness ==
    \E c \in Clients :
        /\ req[c].op = "search"
        /\ resp[c].status = 200
        /\ DOMAIN req[c].query = {"industry", "employees"}
        /\ Len(resp[c].json.items) = 1
        /\ \E i \in 1..Len(store) :
              store[i].industry = req[c].query.industry /\ ~Has(store[i], "employees")
        /\ \E i \in 1..Len(store) :
              /\ store[i].industry # req[c].query.industry
              /\ Has(store[i], "employees") /\ store[i].employees >= req[c].query.employees

\* s contains q as a substring, letter case ignored.
containsIgnoringCase(s, q) ==
    \E i \in 0..(Len(s) - Len(q)) :
        toLowerCase(SubSeq(s, i + 1, i + Len(q))) = toLowerCase(q)

\* C15: a suggestion result holds each value once, and holds a value exactly
\* when it is the name, the industry or a location entry of a stored record
\* and itself contains q, letter case ignored.
C15_SuggestionsAreMatchingValues ==
    \A c \in Clients :
        req[c].op = "suggest" /\ resp[c].status = 200 =>
            LET items == resp[c].json.items
                values == {items[k] : k \in 1..Len(items)}
            IN  /\ Len(items) = Cardinality(values)
                /\ values = {v \in StoredValues : containsIgnoringCase(v, req[c].query.q)}

\* The ids of the records of a list response, in its order.
ListedIds(r) == [k \in 1..Len(r.json.items) |-> r.json.items[k].fields["_id"]]

\* The pages 1..n of the store for a limit, one after the other.
RECURSIVE PagesUpTo(_, _)
PagesUpTo(n, limit) ==
    IF n = 0 THEN <<>>
    ELSE PagesUpTo(n - 1, limit) \o ListedIds(listResponse([page |-> n, limit |-> limit]))

\* C16: a list request with page p >= 1 and limit l >= 1 (1 and 10 when not
\* given) is answered with the records at the positions (p-1)*l+1 .. p*l of
\* the store, as far as the store reaches; the pages of that limit hold at
\* most l records each, share none, and put end to end are the store in order.
C16_PagesPartitionStore ==
    \A c \in Clients :
        req[c].op = "list" =>
            LET p == IF Has(req[c].query, "page") THEN req[c].query.page ELSE 1
                l == IF Has(req[c].query, "limit") THEN req[c].query.limit ELSE 10
                n == Len(store) + 1
                positions == {i \in 1..Len(store) : (p - 1) * l < i /\ i <= p * l}
                page(k) == ListedIds(listResponse([page |-> k, limit |-> l]))
                ids(k) == {page(k)[j] : j \in 1..Len(page(k))}
            IN  p >= 1 /\ l >= 1 =>
                    /\ resp[c].status = 200
                    /\ Len(resp[c].json.items) = Cardinality(positions)
                    /\ \A k \in 1..Len(resp[c].json.items) :
                          ListedIds(resp[c])[k] = store[(p - 1) * l + k]["_id"]
                    /\ \A k \in 1..n : Len(page(k)) <= l
                    /\ \A k, q \in 1..n : k # q => ids(k) \cap ids(q) = {}
                    /\ PagesUpTo(n, l) = [i \in 1..Len(store) |-> store[i]["_id"]]

\* The second page of limit 1 of a store of three records was listed.
C16_Witness ==
    \E c \in Clients :
        /\ req[c].op = "list"
        /\ req[c].query = [page |-> 2, limit |-> 1]
        /\ resp[c].status = 200
        /\ Len(resp[c].json.items) = 1
        /\ Len(store) = 3

\* C17: every element of a list response carries the id, the projected
\* fields its record has and the record's employeeRange label, and none of
\* email, phone, employees, headquarters and revenue.
C17_ListProjection ==
    \A c \in Clients :
        req[c].op = "list" /\ resp[c].status = 200 =>
            \A k \in 1..Len(resp[c].json.items) :
                LET f == resp[c].json.items[k].fields
                    doc == store[indexOfId(f["_id"])]
                IN  /\ \A key \in {"name", "description", "industry", "foundedYear",
                                   "location", "website", "isActive", "logo"} :
                          IF Has(doc, key) THEN Has(f, key) /\ f[key] = doc[key]
                          ELSE ~Has(f, key)
                    /\ DOMAIN f \cap {"email", "phone", "employees", "headquarters",
                                      "revenue"} = {}
                    /\ Has(f, "employeeRange")
                    /\ f.employeeRange = employeeRange(doc)

\* C18: the companyAge a get-by-id returns is the current year less the
\* record's foundedYear, or 0 for a record without one; it is not negative,
\* and no stored record carries a companyAge.
C18_CompanyAge ==
    [][\A c \in Clients :
          BeginsBy(c, "get") /\ resp'[c].status = 200 =>
              LET f == resp'[c].json.fields
                  doc == store[indexOfId(req'[c].id)]
              IN  /\ f.companyAge =
                        (IF Has(doc, "foundedYear") THEN year - doc.foundedYear ELSE 0)
                  /\ f.companyAge >= 0
                  /\ \A i \in 1..Len(store') : ~Has(store'[i], "companyAge")]_vars

\* A record without a founded year was read: its companyAge is 0.
C18_Witness ==
    \E c \in Clients :
        /\ req[c].op = "get"
        /\ resp[c].status = 200
        /\ ~Has(resp[c].json.fields, "foundedYear")
        /\ resp[c].json.fields.companyAge = 0

\* The body without its website.
WithoutWebsite(body) == [k \in DOMAIN body \ {"website"} |-> body[k]]

\* C19: a create whose website has no protocol, valid otherwise and neither a
\* duplicate nor hit by a store fault, is answered 201 and the record is
\* stored with "https://" put before the website.
C19_WebsiteGetsProtocol ==
    \A c \in Clients :
        /\ DoneCreate(c)
        /\ Has(req[c].body, "website")
        /\ trim(req[c].body.website) # <<>>
        /\ ~startsWith(trim(req[c].body.website), <<"h", "t", "t", "p">>)
        /\ ValidCreate(WithoutWebsite(req[c].body))
        /\ preCheck[c] = "clear"
        /\ resp[c].status \notin {409, 500, 503}
        => /\ resp[c].status = 201
           /\ resp[c].json.fields.data.fields.website =
                  <<"h", "t", "t", "p", "s", ":", "/", "/">> \o trim(req[c].body.website)
           /\ \E i \in 1..Len(store) :
                  /\ store[i]["_id"] \in inserted[c]
                  /\ store[i].website = resp[c].json.fields.data.fields.website

\* C20: the industry of every stored record is one of the ten values of the
\* industry enum.
C20_IndustryInEnum ==
    \A i \in 1..Len(store) : store[i].industry \in IndustryValues

\* An update that carried an industry outside the enum besides allow-listed
\* fields went through on a stored record.
C20_Witness ==
    \E c \in Clients :
        /\ req[c].op = "update"
        /\ resp[c].status = 200
        /\ Has(req[c].body, "industry")
        /\ req[c].body.industry \notin IndustryValues
        /\ indexOfId(req[c].id) # 0

RangeContaining(n) ==
    IF n <= 10 THEN "1-10"
    ELSE IF n <= 50 THEN "11-50"
    ELSE IF n <= 200 THEN "51-200"
    ELSE IF n <= 1000 THEN "201-1000"
    ELSE "1000+"

\* C29: for an employee count between 1 and 10,000,000 the employeeRange
\* label is the one whose range contains the count (1..10, 11..50, 51..200,
\* 201..1000, above 1000), an absent count gives "Not specified", and the
\* virtual and getEmployeeRange() give the same label.
C29_EmployeeRangeLabels ==
    rangeOut # Unset =>
        /\ rangeOut.virtual = rangeOut.method
        /\ Has(rangeDoc, "employees") => rangeOut.virtual = RangeContaining(rangeDoc.employees)
        /\ ~Has(rangeDoc, "employees") => rangeOut.virtual = "Not specified"

\* The calls of next that passed the error err.
CallsWith(err) == {i \in 1..Len(nextCalls) : nextCalls[i].err = err}

\* C25: for a handler wrapped by asyncHandler, when the handler throws or its
\* promise rejects, next is called exactly once with that error; when the
\* handler completes normally, the wrapper calls next not at all, and every
\* response is the handler's own or the error middleware's answer to a call
\* of next that the wrapper did not make.
C25_AsyncHandlerForwardsOnce ==
    (promise # Unset /\ Wrapped(fn)) =>
        /\ promise.state \in {"rejected", "threw"} =>
              Cardinality(CallsWith(promise.err)) = 1
        /\ promise.state = "fulfilled" =>
              /\ \A i \in 1..Len(nextCalls) : nextCalls[i].by = "timeoutHandler"
              /\ \A i \in 1..Len(responses) :
                    \/ responses[i].by = "handler"
                    \/ responses[i].by = "globalErrorHandler" /\ timer = "fired"

\* createCompany rejected after its await and the wrapper passed the error on.
C25_Witness ==
    /\ fn = "createCompany"
    /\ promise = Rejected(ApiError(400, "Already existing company", <<>>))
    /\ \E i \in 1..Len(nextCalls) :
          nextCalls[i] = [by |-> "asyncHandler", err |-> promise.err]
    /\ Len(responses) = 1

\* C28: a request gets at most one response; when the timeout fired before
\* the handler answered, the timeout's response is the only one and the
\* handler's later completion does not end the process; when the handler
\* answered first, the timeout produces no response.
C28_OneResponsePerRequest ==
    /\ Len(responses) <= 1
    /\ process = "up"
    /\ (Len(responses) = 1 /\ responses[1].by = "handler") =>
          \A i \in 1..Len(nextCalls) : nextCalls[i].by # "timeoutHandler"

\* C30: after any calls of connect() and disconnect() and any connection
\* events, getConnectionStatus() is true exactly when the connection is open
\* (a connection that is just being opened or closed counts either way), and
\* connect() has opened a connection only when none was open or being opened.
C30_StatusIsConnectionOpen ==
    /\ readyState = "connected" => isConnected
    /\ readyState = "disconnected" => ~isConnected
    /\ opened \subseteq {"disconnected"}

\* C22: when a connection attempt fails during startup, connectToDatabase
\* tries again, up to 5 attempts with a growing delay; startup goes on as soon
\* as an attempt succeeds, and the process exits over a failed connection
\* only after the fifth attempt.
C22_ExitOnlyAfterLastAttempt ==
    /\ attempt <= Retries
    /\ delay >= InitialDelay
    /\ initPc \in {"startServer", "ready"} => dbListeners > 0
    /\ (initPc = "connecting" /\ exitCode = 1) => attempt = Retries

\* C23: after SIGTERM or SIGINT reached a process whose HTTP server had been
\* started, the process has exited only once the server is closed and the
\* database connection after it, or once the 10-second timer has fired.
C23_ExitOnlyAfterShutdown ==
    (signal # "none" /\ exitCode # -1 /\ httpServer # "none") =>
        \/ httpServer = "closed" /\ readyState = "disconnected"
        \/ forceTimer = "fired"

\* C24: initialization validates the environment, then connects to the
\* database, then starts the HTTP server: no connection is attempted before
\* the validation has passed, the server is started only after a connection
\* attempt has succeeded, and with the validation failing neither happens.
C24_InitializationOrder ==
    /\ initPc = "start" => attempt = 0 /\ httpServer = "none"
    /\ attempt > 0 => mongodbUri
    /\ httpServer # "none" => attempt > 0 /\ dbListeners > 0
    /\ ~mongodbUri => attempt = 0 /\ dbListeners = 0 /\ httpServer = "none"

\* The server listens after the validation and the connection.
C24_Witness ==
    /\ httpServer = "listening"
    /\ initPc = "ready"
    /\ exitCode = -1

\* A stored record has exactly this name or exactly this email.
StoredNameOrEmail(body) ==
    \E i \in 1..Len(store) : store[i].name = body.name \/ store[i].email = body.email

\* The message of an error response.
MessageOf(r) == r.json.fields.message

\* C26: a create whose field-shape validation fails is answered without the
\* store being read; a create that passes it and whose name or email equals a
\* stored record's when the pre-check reads the store is answered 400 'Already
\* existing company', also when its industry is outside the enum.
C26_CreateCheckOrder ==
    [][\A c \in Clients :
          /\ (BeginsBy(c, "create") /\ createFieldErrors(req'[c].body) # <<>>) =>
                /\ pc'[c] = "idle"
                /\ preCheck'[c] = "none"
                /\ resp'[c].status = 400
                /\ MessageOf(resp'[c]) = "Missing fields"
          /\ (pc[c] = "findOne" /\ preCheck'[c] # "none" /\ StoredNameOrEmail(req[c].body)) =>
                /\ pc'[c] = "idle"
                /\ resp'[c].status = 400
                /\ MessageOf(resp'[c]) = "Already existing company"]_vars

\* A create with a stored name and an industry outside the enum was answered
\* as a duplicate.
C26_Witness ==
    \E c \in Clients :
        /\ DoneCreate(c)
        /\ preCheck[c] = "found"
        /\ ~includes(industryEnum, req[c].body.industry)
        /\ StoredNameOrEmail(req[c].body)
        /\ MessageOf(resp[c]) = "Already existing company"

\* The answer of update and delete for an id without a record.
CompanyNotFound == HttpResponse(404, Obj([message |-> "Company not found"]))

\* Client c begins an update with an allow-listed key, or a delete, of a
\* well-formed id that no stored record has.
MissesRecord(c) ==
    /\ \/ BeginsBy(c, "delete")
       \/ BeginsBy(c, "update") /\ DOMAIN req'[c].body \cap AllowListed # {}
    /\ isObjectId(req'[c].id)
    /\ indexOfId(req'[c].id) = 0

====
